---- MODULE Spec2Model ----
(***************************************************************************)
(* Model of media_validator.py: the OMF/AAF media validator.               *)
(*                                                                         *)
(* Text (names, paths, header bytes) is a sequence of one-character        *)
(* strings, so that strip, lower, os.path.join, os.path.normpath,          *)
(* os.path.basename and os.path.splitext are computed as the Python        *)
(* library computes them (POSIX flavour: the tool ships in a macOS app).   *)
(* None is the marker NONE, a missing attribute the marker ABSENT.         *)
(***************************************************************************)
EXTENDS Integers, Sequences, FiniteSets, TLC

\* Python's None, and "the object has no such attribute" (hasattr is false),
\* as text values that no operation on characters can produce
NONE == <<"#None">>

ABSENT == <<"#absent">>

\* hasattr(obj, field)
HasAttr(v) == v # ABSENT

\* bool(v) of an optional text: None, a missing attribute and '' are falsy
Truthy(v) == v # ABSENT /\ v # NONE /\ v # <<>>

\* a local variable of the source: Body with its parameter bound to v
With(v, Body(_)) == Body(v)

\* a local variable whose value is computed when it is assigned, as the
\* source computes it, and not when Body comes to use it
Assigned(v, Body(_)) == IF v = v THEN Body(v) ELSE Body(v)

\* the first truthy value of a chain of "if not x and ...: x = ..." statements,
\* NONE when no candidate is truthy
RECURSIVE FirstTruthy(_)
FirstTruthy(candidates) ==
    IF Len(candidates) = 0 THEN NONE
    ELSE IF Truthy(candidates[1]) THEN candidates[1]
    ELSE FirstTruthy(Tail(candidates))

(***************************************************************************)
(* Python str / os.path primitives used by the source.                     *)
(***************************************************************************)

\* a[i:] of Python, with a 1-based first index
Drop(s, n) == SubSeq(s, n + 1, Len(s))

\* a[:n]
Take(s, n) == SubSeq(s, 1, n)

StartsWith(s, p) == Len(s) >= Len(p) /\ Take(s, Len(p)) = p

EndsWith(s, p) == Len(s) >= Len(p) /\ Drop(s, Len(s) - Len(p)) = p

\* c in s
HasChar(s, c) == \E i \in 1..Len(s) : s[i] = c

\* s.rfind(c), 1-based; 0 when absent
RFind(s, c) ==
    IF HasChar(s, c) THEN CHOOSE i \in 1..Len(s) : s[i] = c /\ \A j \in (i+1)..Len(s) : s[j] # c
    ELSE 0

\* s.find(c), 1-based; 0 when absent
Find(s, c) ==
    IF HasChar(s, c) THEN CHOOSE i \in 1..Len(s) : s[i] = c /\ \A j \in 1..(i-1) : s[j] # c
    ELSE 0

UpperSeq == <<"A","B","C","D","E","F","G","H","I","J","K","L","M",
             "N","O","P","Q","R","S","T","U","V","W","X","Y","Z">>

LowerSeq == <<"a","b","c","d","e","f","g","h","i","j","k","l","m",
             "n","o","p","q","r","s","t","u","v","w","x","y","z">>

LowerOf(c) ==
    IF \E i \in 1..26 : UpperSeq[i] = c
    THEN LowerSeq[CHOOSE i \in 1..26 : UpperSeq[i] = c]
    ELSE c

\* str.lower()
Lower(s) == [i \in 1..Len(s) |-> LowerOf(s[i])]

WhiteChars == {" ", "\t", "\n", "\r"}

RECURSIVE LStrip(_)
LStrip(s) == IF Len(s) > 0 /\ s[1] \in WhiteChars THEN LStrip(Tail(s)) ELSE s

RECURSIVE RStrip(_)
RStrip(s) ==
    IF Len(s) > 0 /\ s[Len(s)] \in WhiteChars THEN RStrip(Take(s, Len(s) - 1)) ELSE s

\* str.strip()
Strip(s) == LStrip(RStrip(s))

\* os.path.isabs (posixpath)
IsAbs(p) == Len(p) > 0 /\ p[1] = "/"

\* os.path.join(a, b) (posixpath, two arguments)
Join(a, b) ==
    IF IsAbs(b) THEN b
    ELSE IF a = <<>> \/ a[Len(a)] = "/" THEN a \o b
    ELSE a \o <<"/">> \o b

\* os.path.basename
Basename(p) == Drop(p, RFind(p, "/"))

\* head.rstrip('/') of os.path.dirname
RECURSIVE RStripSlash(_)
RStripSlash(h) ==
    IF Len(h) > 0 /\ h[Len(h)] = "/" THEN RStripSlash(Take(h, Len(h) - 1)) ELSE h

\* os.path.dirname
Dirname(p) ==
    With(Take(p, RFind(p, "/")), LAMBDA head :
        IF head # <<>> /\ (\E k \in 1..Len(head) : head[k] # "/")
        THEN RStripSlash(head) ELSE head)

\* p.split('/')
RECURSIVE SplitSlash(_)
SplitSlash(p) ==
    With(Find(p, "/"), LAMBDA i :
        IF i = 0 THEN <<p>> ELSE <<Take(p, i - 1)>> \o SplitSlash(Drop(p, i)))

\* '/'.join(comps)
RECURSIVE JoinSlash(_)
JoinSlash(comps) ==
    IF Len(comps) = 0 THEN <<>>
    ELSE IF Len(comps) = 1 THEN comps[1]
    ELSE comps[1] \o <<"/">> \o JoinSlash(Tail(comps))

DOT == <<".">>
DOTDOT == <<".", ".">>

\* the component loop of posixpath.normpath
RECURSIVE NormComps(_, _, _)
NormComps(comps, acc, initial) ==
    IF Len(comps) = 0 THEN acc
    ELSE With(comps[1], LAMBDA c :
            IF c = <<>> \/ c = DOT THEN NormComps(Tail(comps), acc, initial)
            ELSE IF c # DOTDOT \/ (initial = 0 /\ Len(acc) = 0)
                    \/ (Len(acc) > 0 /\ acc[Len(acc)] = DOTDOT)
                 THEN NormComps(Tail(comps), Append(acc, c), initial)
            ELSE IF Len(acc) > 0
                 THEN NormComps(Tail(comps), Take(acc, Len(acc) - 1), initial)
            ELSE NormComps(Tail(comps), acc, initial))

\* os.path.normpath (posixpath)
NormPath(p) ==
    IF p = <<>> THEN DOT
    ELSE With(IF ~IsAbs(p) THEN 0
              ELSE IF StartsWith(p, <<"/", "/">>) /\ ~StartsWith(p, <<"/", "/", "/">>)
                   THEN 2 ELSE 1,
              LAMBDA initial :
         With([i \in 1..initial |-> "/"]
                 \o JoinSlash(NormComps(SplitSlash(p), <<>>, initial)),
              LAMBDA out : IF out = <<>> THEN DOT ELSE out))

\* os.path.splitext (genericpath._splitext with sep '/' and extsep '.')
SplitExt(p) ==
    With(RFind(p, "/"), LAMBDA sepIndex :
    With(RFind(p, "."), LAMBDA dotIndex :
        IF dotIndex > sepIndex
           /\ \E k \in (sepIndex + 1)..(dotIndex - 1) : p[k] # "."
        THEN <<Take(p, dotIndex - 1), Drop(p, dotIndex - 1)>>
        ELSE <<p, <<>>>>))

\* sub in s (substring test)
Contains(s, sub) ==
    \E i \in 0..(Len(s) - Len(sub)) : SubSeq(s, i + 1, i + Len(sub)) = sub

DigitSeq == <<"0","1","2","3","4","5","6","7","8","9">>

\* str(n) for a natural number
RECURSIVE Str(_)
Str(n) == IF n < 10 THEN <<DigitSeq[n + 1]>> ELSE Str(n \div 10) \o <<DigitSeq[(n % 10) + 1]>>

(***************************************************************************)
(* Literals of the source.                                                 *)
(***************************************************************************)

\* the container file's path (sys.argv[1])
P_show_aaf == <<"/","p","/","s",".","a","a","f">>
P_show_omf == <<"/","p","/","s",".","o","m","f">>
P_show_AAF == <<"/","p","/","s",".","A","A","F">>
P_show_Omf == <<"/","p","/","s",".","O","m","f">>
P_show_noext == <<"/","p","/","s">>
P_show_bin == <<"/","p","/","s",".","b","i","n">>

\* the process's working directory
CWD == <<"/","p">>

EXT_aaf == <<".","a","a","f">>
EXT_omf == <<".","o","m","f">>
EXT_wav == <<".","w","a","v">>
EXT_aif == <<".","a","i","f">>
EXT_aiff == <<".","a","i","f","f">>
EXT_mp3 == <<".","m","p","3">>
EXT_m4a == <<".","m","4","a">>
EXT_caf == <<".","c","a","f">>
EXT_sd2 == <<".","s","d","2">>
FILE_URL == <<"f","i","l","e",":","/","/">>
HTTP == <<"h","t","t","p">>
N_sourceclip == <<"s","o","u","r","c","e","c","l","i","p">>
N_unnamed == <<"u","n","n","a","m","e","d">>
T_sound == <<"s","o","u","n","d">>
T_audio == <<"a","u","d","i","o">>
T_Clip_ == <<"C","l","i","p","_">>
T_AudioClip == <<"A","u","d","i","o"," ","C","l","i","p"," ">>
T_AudioReference == <<"A","u","d","i","o"," ","R","e","f","e","r","e","n","c","e"," ">>

\* header magic (00 and 01 stand for the bytes \x00 and \x01)
H_AAF == <<"A","A","F">>
H_OMFI == <<"O","M","F","I">>
H_0001 == <<"00","00","00","01">>
H_01 == <<"00","01">>

(***************************************************************************)
(* The filesystem: a set of entries [path, kind, size], path absolute and  *)
(* normalized, kind "file" or "dir", size in bytes.                        *)
(***************************************************************************)

\* os.path.abspath
AbsPath(p) == NormPath(Join(CWD, p))

DiskHas(d, p) == \E e \in d : e.path = p

DiskEntry(d, p) == CHOOSE e \in d : e.path = p

\* the kernel's path walk: every component but the last must be an existing
\* directory before '..' or a further name is applied to it
RECURSIVE Walk(_, _, _)
Walk(d, cur, comps) ==
    IF ~DiskHas(d, cur) THEN NONE
    ELSE IF Len(comps) = 0 THEN cur
    ELSE IF DiskEntry(d, cur).kind # "dir" THEN NONE
    ELSE With(comps[1], LAMBDA c :
            Walk(d,
                 IF c = <<>> \/ c = DOT THEN cur
                 ELSE IF c = DOTDOT THEN (IF cur = <<"/">> THEN cur ELSE Dirname(cur))
                 ELSE Join(cur, c),
                 Tail(comps)))

\* the entry a path names, NONE when there is none
Lookup(d, p) ==
    IF p = <<>> THEN NONE
    ELSE IF IsAbs(p) THEN Walk(d, <<"/">>, SplitSlash(p))
    ELSE Walk(d, CWD, SplitSlash(p))

\* os.path.exists
PathExists(d, p) == Lookup(d, p) # NONE

\* os.path.isfile
PathIsFile(d, p) == PathExists(d, p) /\ DiskEntry(d, Lookup(d, p)).kind = "file"

\* os.path.getsize of an existing path
PathSize(d, p) == DiskEntry(d, Lookup(d, p)).size

(***************************************************************************)
(* Format detection.                                                       *)
(***************************************************************************)

Min(a, b) == IF a < b THEN a ELSE b

Max(a, b) == IF a > b THEN a ELSE b

HEADER_PEEK == 16

\* whether _detect_file_type gets as far as opening the file for its header
DetectPeeks(f) ==
    With(Lower(SplitExt(f.path)[2]), LAMBDA file_ext :
        file_ext # EXT_aaf /\ file_ext # EXT_omf)

\* the magic numbers of the two formats in the header that was read
HeaderIsAAF(header) ==
    \/ Contains(Take(header, Min(8, Len(header))), H_AAF)
    \/ Take(header, Min(4, Len(header))) = H_0001

HeaderIsOMF(header) ==
    \/ Take(header, Min(4, Len(header))) = H_OMFI
    \/ Take(header, Min(2, Len(header))) = H_01

\* a detection that looks at the header before it looks at the extension
DetectHeaderFirst(f) ==
    With(Lower(SplitExt(f.path)[2]), LAMBDA file_ext :
    With(Take(f.header, Min(HEADER_PEEK, Len(f.header))), LAMBDA header :
        IF f.readable /\ HeaderIsAAF(header) THEN "aaf"
        ELSE IF f.readable /\ HeaderIsOMF(header) THEN "omf"
        ELSE IF file_ext = EXT_aaf THEN "aaf"
        ELSE IF file_ext = EXT_omf THEN "omf"
        ELSE "unknown"))

\* _detect_file_type: "aaf", "omf", or "unknown" where the source raises
\* ValueError. f.readable = FALSE is an open() or read() that raises.
DetectFileType(f) ==
    With(Lower(SplitExt(f.path)[2]), LAMBDA file_ext :
    With(Take(f.header, Min(HEADER_PEEK, Len(f.header))), LAMBDA header :
        IF file_ext = EXT_aaf THEN "aaf"
        ELSE IF file_ext = EXT_omf THEN "omf"
        ELSE IF f.readable /\ HeaderIsAAF(header) THEN "aaf"
        ELSE IF f.readable /\ HeaderIsOMF(header) THEN "omf"
        ELSE "unknown"))

(***************************************************************************)
(* MediaClip and the Validate phase.                                       *)
(***************************************************************************)

MSG_embedded ==
    <<"E","m","b","e","d","d","e","d"," ","m","e","d","i","a"," ","d",
      "a","t","a"," ","i","s"," ","m","i","s","s","i","n","g"," ","o",
      "r"," ","c","o","r","r","u","p","t","e","d">>

MSG_no_path ==
    <<"N","o"," ","e","x","t","e","r","n","a","l"," ","f","i","l","e",
      " ","p","a","t","h"," ","s","p","e","c","i","f","i","e","d"," ",
      "f","o","r"," ","l","i","n","k","e","d"," ","m","e","d","i","a">>

MSG_not_found ==
    <<"E","x","t","e","r","n","a","l"," ","m","e","d","i","a"," ","f",
      "i","l","e"," ","n","o","t"," ","f","o","u","n","d",":"," ">>

MSG_not_file ==
    <<"E","x","t","e","r","n","a","l"," ","p","a","t","h"," ","e","x",
      "i","s","t","s"," ","b","u","t"," ","i","s"," ","n","o","t"," ",
      "a"," ","f","i","l","e",":"," ">>

\* MediaClip(name=, clip_id=, is_embedded=, external_path=) with the
\* dataclass's defaults for the other fields; times are in milliseconds
MediaClip(name, clip_id, is_embedded, external_path) ==
    [name |-> name, clip_id |-> clip_id, is_embedded |-> is_embedded,
     external_path |-> external_path, is_valid |-> TRUE, error_message |-> NONE,
     track_index |-> 0, timeline_start |-> 0, timeline_end |-> 0,
     name_matches_file |-> "None", expected_filename |-> NONE]

\* a check of embedded media that wants the clip to have no external path
validate_embedded_by_path(clip) == ~Truthy(clip.external_path)

\* validate_embedded_media
validate_embedded_media(clip) == TRUE

\* a Validate loop that asks whether the path is a file before it asks
\* whether it exists
ValidateFileFirst(d, clip) ==
    IF clip.is_embedded
    THEN (IF ~validate_embedded_media(clip) THEN MSG_embedded ELSE NONE)
    ELSE IF ~Truthy(clip.external_path) THEN MSG_no_path
    ELSE IF ~PathIsFile(d, clip.external_path) THEN MSG_not_file \o clip.external_path
    ELSE IF ~PathExists(d, clip.external_path) THEN MSG_not_found \o clip.external_path
    ELSE NONE

\* the error message the Validate loop gives a clip, NONE when it leaves the
\* clip as it is
ValidateOutcome(d, clip) ==
    IF clip.is_embedded
    THEN (IF ~validate_embedded_media(clip) THEN MSG_embedded ELSE NONE)
    ELSE IF ~Truthy(clip.external_path) THEN MSG_no_path
    ELSE IF ~PathExists(d, clip.external_path) THEN MSG_not_found \o clip.external_path
    ELSE IF ~PathIsFile(d, clip.external_path) THEN MSG_not_file \o clip.external_path
    ELSE NONE

\* a Validate loop that also moves the clips it marks invalid on the timeline
ValidateAndPlace(d, clip) ==
    With(ValidateOutcome(d, clip), LAMBDA msg :
        IF msg = NONE THEN clip
        ELSE [clip EXCEPT !.is_valid = FALSE, !.error_message = msg, !.timeline_end = 1000])

\* a Validate loop that marks a clip invalid and gives it no message
ValidateOneSilent(d, clip) ==
    With(ValidateOutcome(d, clip), LAMBDA msg :
        IF msg = NONE THEN clip
        ELSE [clip EXCEPT !.is_valid = FALSE])

\* one iteration of the Validate loop on clip
ValidateOne(d, clip) ==
    With(ValidateOutcome(d, clip), LAMBDA msg :
        IF msg = NONE THEN clip
        ELSE [clip EXCEPT !.is_valid = FALSE, !.error_message = msg])

\* sum(1 for clip in clips if P(clip))
CountIf(clips, P(_)) == Cardinality({i \in 1..Len(clips) : P(clips[i])})

(***************************************************************************)
(* The graph reader's objects. A graph is a function from node numbers to  *)
(* objects; an object carries every optional field the source probes with  *)
(* hasattr: a text field is ABSENT when the attribute does not exist, a    *)
(* reference is -1 when the attribute does not exist and 0 when it is      *)
(* None, a list is [has |-> FALSE] when the attribute does not exist.      *)
(***************************************************************************)

NoList == [has |-> FALSE, list |-> <<>>]

ListOf(l) == [has |-> TRUE, list |-> l]

\* descriptor.locator: kind "absent" (no attribute), "none" (None or an empty
\* list), "list" (a non-empty list of locators: truthy, and neither a path
\* nor a url_string attribute of its own), "obj" (one locator record)
NoLocator == [kind |-> "absent", path |-> ABSENT, url_string |-> ABSENT]

ListLocator == [kind |-> "list", path |-> ABSENT, url_string |-> ABSENT]

PathLocator(p) == [kind |-> "obj", path |-> p, url_string |-> ABSENT]

UrlLocator(u) == [kind |-> "obj", path |-> ABSENT, url_string |-> u]

NoDescriptor ==
    [has |-> FALSE, type |-> <<>>, name |-> ABSENT, locator |-> NoLocator,
     essence |-> FALSE, essence_data |-> FALSE]

Slot(segment, media_kind, start, length) ==
    [segment |-> segment, media_kind |-> media_kind, start |-> start, length |-> length]

\* an object with none of the optional attributes
Obj ==
    [name |-> ABSENT, mob |-> -1, mob_id |-> ABSENT, descriptor |-> NoDescriptor,
     essence |-> FALSE, slots |-> NoList, components |-> NoList, segments |-> NoList,
     start |-> -1, length |-> -1, edit_rate |-> 0, raises |-> "no"]

(***************************************************************************)
(* Graph Container Walker: _extract_clips_from_segment.                    *)
(***************************************************************************)

\* id(obj): CPython's address of the object, which depends on the heap of the
\* process that opened the file
\* reading the attribute of the object raises an exception that is not an
\* AttributeError, which hasattr and getattr let through
RaisesOn(obj, attr) == obj.raises = attr

PyId(heap, n) == heap * 100 + n

\* str(getattr(source_mob, 'mob_id', id(source_mob)))
SourceId(g, heap, m) ==
    IF HasAttr(g[m].mob_id) THEN g[m].mob_id ELSE Str(PyId(heap, m))

\* clip_name.lower() in ['sourceclip', 'unnamed', '']
IsGeneric(name) == Lower(name) \in {N_sourceclip, N_unnamed, <<>>}

\* str(x.name).strip() under "hasattr(x, 'name') and x.name", else None
StripIfSet(v) == IF Truthy(v) THEN Strip(v) ELSE NONE

\* a naming that has no generated name to fall back to
WalkerClipNameAsGiven(g, seg, source_mob, nclips) ==
    FirstTruthy(<<StripIfSet(seg.name),
                  StripIfSet(source_mob.name),
                  IF source_mob.descriptor.has
                  THEN StripIfSet(source_mob.descriptor.name) ELSE NONE>>)

\* lines 295-314: the name of a clip of the validation pass
WalkerClipName(g, seg, source_mob, nclips) ==
    With(FirstTruthy(<<StripIfSet(seg.name),
                       StripIfSet(source_mob.name),
                       IF source_mob.descriptor.has
                       THEN StripIfSet(source_mob.descriptor.name) ELSE NONE>>),
         LAMBDA clip_name :
            IF ~Truthy(clip_name) \/ IsGeneric(clip_name)
            THEN T_Clip_ \o Str(nclips + 1) ELSE clip_name)

\* lines 318-340: is_audio; an exception of the slots is caught at line 327
WalkerIsAudio(source_mob) ==
    \/ /\ ~RaisesOn(source_mob, "slots")
       /\ source_mob.slots.has
       /\ \E i \in 1..Len(source_mob.slots.list) :
              LET k == source_mob.slots.list[i].media_kind
              IN Truthy(k) /\ Contains(Lower(k), T_sound)
    \/ /\ source_mob.descriptor.has
       /\ \/ Contains(Lower(source_mob.descriptor.type), T_audio)
          \/ Contains(Lower(source_mob.descriptor.type), T_sound)

\* the path a truthy locator record gives (lines 355-365, 215-223, 388-398),
\* NONE when it gives none
LocatorPath(loc) ==
    IF loc.kind # "obj" THEN NONE
    ELSE IF HasAttr(loc.path) THEN loc.path
    ELSE IF HasAttr(loc.url_string)
         THEN (IF StartsWith(loc.url_string, FILE_URL) THEN Drop(loc.url_string, 7)
               ELSE IF ~StartsWith(loc.url_string, HTTP) THEN loc.url_string
               ELSE NONE)
    ELSE NONE

\* lines 377-398: the first path found one level into the source's own
\* slots; an exception ends the search (line 400)
RECURSIVE NestedProbe(_, _)
NestedProbe(g, slots) ==
    IF Len(slots) = 0 THEN NONE
    ELSE IF slots[1].segment > 0 /\ RaisesOn(g[slots[1].segment], "mob") THEN NONE
    ELSE With(slots[1].segment, LAMBDA seg :
         With(IF seg > 0 /\ g[seg].mob > 0 /\ g[g[seg].mob].descriptor.has
              THEN LocatorPath(g[g[seg].mob].descriptor.locator)
              ELSE NONE,
              LAMBDA found :
                 IF found # NONE THEN found ELSE NestedProbe(g, Tail(slots))))

\* lines 344-402: <<is_embedded, external_path>> before resolution
WalkerClassify(g, source_mob) ==
    With(source_mob.descriptor, LAMBDA desc :
    With(IF desc.has THEN LocatorPath(desc.locator) ELSE NONE, LAMBDA p1 :
    With(desc.has /\ (desc.essence \/ desc.essence_data), LAMBDA e1 :
        <<e1 \/ (~Truthy(p1) /\ ~e1 /\ source_mob.essence),
          IF ~Truthy(p1) /\ ~RaisesOn(source_mob, "slots") /\ source_mob.slots.has
          THEN With(NestedProbe(g, source_mob.slots.list),
                    LAMBDA q : IF q # NONE THEN q ELSE p1)
          ELSE p1>>)))

\* lines 404-410: resolution against the container's directory
WalkerResolve(fpath, external_path) ==
    IF Truthy(external_path)
    THEN NormPath(IF ~IsAbs(external_path)
                  THEN Join(Dirname(AbsPath(fpath)), external_path)
                  ELSE external_path)
    ELSE external_path

\* a rule that includes every source
WalkerIncludesAll(is_audio, external_path, is_embedded, source_mob) == TRUE

\* line 417: the inclusion rule
WalkerIncludes(is_audio, external_path, is_embedded, source_mob) ==
    \/ is_audio \/ Truthy(external_path) \/ is_embedded
    \/ ~RaisesOn(source_mob, "slots") /\ ~source_mob.slots.has

\* line 417 raises: hasattr(source_mob, 'slots') is evaluated, the other three
\* being false, and the slots cannot be read
WalkerRaises(g, source_mob) ==
    /\ RaisesOn(source_mob, "slots")
    /\ ~WalkerIsAudio(source_mob)
    /\ ~WalkerClassify(g, source_mob)[1]
    /\ ~Truthy(WalkerClassify(g, source_mob)[2])

\* a walker that does not remember the sources it has processed
WalkerSourceForgetful(ctx, seg, st) ==
    With(ctx.g[seg.mob], LAMBDA source_mob :
    With(WalkerClassify(ctx.g, source_mob), LAMBDA cls :
    With(WalkerResolve(ctx.fpath, cls[2]), LAMBDA external_path :
        [clips |-> IF WalkerIncludes(WalkerIsAudio(source_mob), external_path, cls[1],
                                     source_mob)
                   THEN Append(st.clips,
                               MediaClip(WalkerClipName(ctx.g, seg, source_mob, Len(st.clips)),
                                         SourceId(ctx.g, ctx.heap, seg.mob), cls[1],
                                         external_path))
                   ELSE st.clips,
         processed |-> st.processed])))

\* lines 286-425 for a segment with a mob that is not yet processed
WalkerSource(ctx, seg, st) ==
    With(ctx.g[seg.mob], LAMBDA source_mob :
    With(SourceId(ctx.g, ctx.heap, seg.mob), LAMBDA source_id :
    With(WalkerClassify(ctx.g, source_mob), LAMBDA cls :
    With(WalkerResolve(ctx.fpath, cls[2]), LAMBDA external_path :
        [clips |-> IF WalkerIncludes(WalkerIsAudio(source_mob), external_path, cls[1],
                                     source_mob)
                   THEN Append(st.clips,
                               MediaClip(WalkerClipName(ctx.g, seg, source_mob, Len(st.clips)),
                                         source_id, cls[1], external_path))
                   ELSE st.clips,
         processed |-> st.processed \cup {source_id}]))))

RECURSIVE ExtractSegment(_, _, _), ExtractSlots(_, _, _), ExtractComponents(_, _, _)

\* a loop over the components that the exception of a component ends
RECURSIVE ExtractComponentsAborting(_, _, _)
ExtractComponentsAborting(ctx, comps, st) ==
    IF Len(comps) = 0 THEN st
    ELSE IF RaisesOn(ctx.g[comps[1]], "mob") THEN st
    ELSE ExtractComponentsAborting(ctx, Tail(comps), ExtractSegment(ctx, comps[1], st))

\* _extract_clips_from_segment(segment n, clips, processed_sources, ...);
\* st = [clips, processed]. ExtractSlots and ExtractComponents are its loops
\* over segment.slots and segment.components. The body is one try block
\* (lines 280-442): an exception ends the call and leaves clips and
\* processed_sources as they are at that point.
ExtractSegment(ctx, n, st) ==
    With(ctx.g[n], LAMBDA seg :
        IF RaisesOn(seg, "mob") THEN st
        ELSE IF seg.mob > 0 /\ SourceId(ctx.g, ctx.heap, seg.mob) \in st.processed
        THEN st
        ELSE With(IF seg.mob > 0 THEN WalkerSource(ctx, seg, st) ELSE st, LAMBDA st1 :
             IF (seg.mob > 0 /\ WalkerRaises(ctx.g, ctx.g[seg.mob])) \/ RaisesOn(seg, "slots")
             THEN st1
             ELSE
             With(IF seg.slots.has THEN ExtractSlots(ctx, seg.slots.list, st1) ELSE st1,
                  LAMBDA st2 :
                     IF seg.components.has
                     THEN ExtractComponents(ctx, seg.components.list, st2) ELSE st2)))

ExtractSlots(ctx, slots, st) ==
    IF Len(slots) = 0 THEN st
    ELSE ExtractSlots(ctx, Tail(slots),
                      IF slots[1].segment > 0
                      THEN ExtractSegment(ctx, slots[1].segment, st) ELSE st)

ExtractComponents(ctx, comps, st) ==
    IF Len(comps) = 0 THEN st
    ELSE ExtractComponents(ctx, Tail(comps), ExtractSegment(ctx, comps[1], st))

(***************************************************************************)
(* _parse_aaf_file: the pre-pass over the registry, the traversal of the   *)
(* top-level compositions and the registry fallback.                       *)
(***************************************************************************)

\* lines 166-175: every registry mob's slots are walked first; a mob whose
\* slots raise is passed over (line 174)
RECURSIVE PrePass(_, _, _)
PrePass(ctx, mobs, st) ==
    IF Len(mobs) = 0 THEN st
    ELSE PrePass(ctx, Tail(mobs),
                 IF ~RaisesOn(ctx.g[mobs[1]], "slots") /\ ctx.g[mobs[1]].slots.has
                 THEN ExtractSlots(ctx, ctx.g[mobs[1]].slots.list, st) ELSE st)

\* lines 182-186
RECURSIVE Compositions(_, _, _)
Compositions(ctx, comps, st) ==
    IF Len(comps) = 0 THEN st
    ELSE Compositions(ctx, Tail(comps), ExtractSegment(ctx, comps[1], st))

\* lines 204-226: <<has_media, ext_path>> from the first slot whose segment
\* refers to a mob; an exception passes the registry mob over (line 246), as
\* has_media = False does
RECURSIVE FallbackProbe(_, _)
FallbackProbe(g, slots) ==
    IF Len(slots) = 0 THEN <<FALSE, NONE>>
    ELSE IF slots[1].segment > 0 /\ RaisesOn(g[slots[1].segment], "mob") THEN <<FALSE, NONE>>
    ELSE With(slots[1].segment, LAMBDA seg :
            IF seg > 0 /\ g[seg].mob > 0
            THEN <<TRUE, IF g[g[seg].mob].descriptor.has
                         THEN LocatorPath(g[g[seg].mob].descriptor.locator) ELSE NONE>>
            ELSE FallbackProbe(g, Tail(slots)))

\* lines 234-238: resolution of the fallback's path
FallbackResolve(fpath, ext_path) ==
    IF Truthy(ext_path) /\ ~IsAbs(ext_path)
    THEN NormPath(Join(Dirname(AbsPath(fpath)), ext_path))
    ELSE ext_path

\* lines 196-248: one registry mob of the fallback pass
FallbackMob(ctx, m, st) ==
    With(ctx.g[m], LAMBDA mob :
    With(IF ~RaisesOn(mob, "slots") /\ mob.slots.has
         THEN FallbackProbe(ctx.g, mob.slots.list) ELSE <<FALSE, NONE>>,
         LAMBDA probe :
    With(SourceId(ctx.g, ctx.heap, m), LAMBDA mob_id :
    With(FallbackResolve(ctx.fpath, probe[2]), LAMBDA ext_path :
        IF (HasAttr(mob.name) \/ HasAttr(mob.mob_id)) /\ probe[1]
           /\ mob_id \notin st.processed
        THEN [clips |-> Append(st.clips,
                               MediaClip(IF Truthy(mob.name) THEN mob.name
                                         ELSE T_Clip_ \o Str(Len(st.clips) + 1),
                                         mob_id, ext_path = NONE, ext_path)),
              processed |-> st.processed \cup {mob_id}]
        ELSE st))))

RECURSIVE Fallback(_, _, _)
Fallback(ctx, mobs, st) ==
    IF Len(mobs) = 0 THEN st
    ELSE Fallback(ctx, Tail(mobs), FallbackMob(ctx, mobs[1], st))

\* a parser that goes through the registry whatever the walker has found
ParseAAFWithRegistry(ctx, content) ==
    With(PrePass(ctx, content.mobs, [clips |-> <<>>, processed |-> {}]), LAMBDA st1 :
        Fallback(ctx, content.mobs, Compositions(ctx, content.toplevel, st1)).clips)

\* _parse_aaf_file once the reader has opened the file: the clips
ParseAAF(ctx, content) ==
    With(PrePass(ctx, content.mobs, [clips |-> <<>>, processed |-> {}]), LAMBDA st1 :
    With(Compositions(ctx, content.toplevel, st1), LAMBDA st2 :
        IF Len(st2.clips) = 0 THEN Fallback(ctx, content.mobs, st2).clips ELSE st2.clips))

(***************************************************************************)
(* Timeline Reconstructor, graph format. Times are integers in             *)
(* milliseconds: the inputs are chosen so that every division by the edit  *)
(* rate is exact.                                                          *)
(***************************************************************************)

MAX_DEPTH == 20

DEFAULT_EDIT_RATE == 48000

\* units / edit_rate, in milliseconds
ToMs(units, edit_rate) == (units * 1000) \div edit_rate

\* a map in which nothing is found
MapGetNothing(clips, source_id) == 0

\* lines 1019-1022 and 1286-1289: validation_clip_map.get(source_id); a later
\* clip with the same clip_id replaces an earlier one
MapGet(clips, source_id) ==
    With({i \in 1..Len(clips) : Truthy(clips[i].clip_id) /\ clips[i].clip_id = source_id},
         LAMBDA hits : IF hits = {} THEN 0 ELSE CHOOSE i \in hits : \A j \in hits : j <= i)

\* a name that is set and, stripped, none of 'sourceclip', 'unnamed', '':
\* the stripped name, else NONE
NonGeneric(v) == IF Truthy(v) /\ ~IsGeneric(Strip(v)) THEN Strip(v) ELSE NONE

\* os.path.splitext(v)[0] of a value that is not None
RootOf(v) == IF v = NONE THEN NONE ELSE SplitExt(v)[1]

\* lines 1138-1168: the name the descriptor's locator gives
LocatorName(source_mob) ==
    With(IF source_mob.descriptor.has
            /\ source_mob.descriptor.locator.kind \in {"list", "obj"}
         THEN LocatorPath(source_mob.descriptor.locator) ELSE NONE,
         LAMBDA file_path :
            IF Truthy(file_path) /\ Basename(file_path) # <<>>
               /\ ~IsGeneric(Basename(file_path))
            THEN SplitExt(Basename(file_path))[1] ELSE NONE)

\* lines 1110-1173: the display name of a timeline clip; matched is the index
\* of the matched validation clip, 0 when there is none
TimelineClipName(seg, source_mob, clips, matched, ntimeline) ==
    With(FirstTruthy(<<RootOf(NonGeneric(source_mob.name)),
                       NonGeneric(seg.name),
                       IF source_mob.descriptor.has
                       THEN NonGeneric(source_mob.descriptor.name) ELSE NONE,
                       IF matched > 0 THEN NonGeneric(clips[matched].name) ELSE NONE,
                       LocatorName(source_mob),
                       IF matched > 0 /\ Truthy(clips[matched].external_path)
                       THEN SplitExt(Basename(clips[matched].external_path))[1]
                       ELSE NONE>>),
         LAMBDA clip_name :
            IF ~Truthy(clip_name) THEN T_Clip_ \o Str(ntimeline + 1) ELSE clip_name)

\* a comparison of the names as they are written
NamesMatchExact(clip_name, expected_filename) ==
    SplitExt(clip_name)[1] = SplitExt(expected_filename)[1]

\* lines 1203-1205 and 1328-1330: the comparison of the name check
NamesMatch(clip_name, expected_filename) ==
    Strip(Lower(SplitExt(clip_name)[1])) = Strip(Lower(SplitExt(expected_filename)[1]))

\* a timeline whose clips are all put on the first track
TimelineSourceOneTrack(ctx, seg, tl, track_index, timeline_position, edit_rate) ==
    With(SourceId(ctx.g, ctx.heap, seg.mob), LAMBDA source_id :
    With(MapGet(ctx.clips, source_id), LAMBDA matched :
        [name |-> TimelineClipName(seg, ctx.g[seg.mob], ctx.clips, matched, Len(tl)),
         clip_id |-> source_id,
         is_embedded |-> IF matched > 0 THEN ctx.clips[matched].is_embedded ELSE FALSE,
         external_path |-> IF matched > 0 THEN ctx.clips[matched].external_path ELSE NONE,
         is_valid |-> IF matched > 0 THEN ctx.clips[matched].is_valid ELSE TRUE,
         error_message |-> NONE,
         track_index |-> 0, timeline_start |-> timeline_position,
         timeline_end |-> timeline_position,
         name_matches_file |-> "None",
         expected_filename |-> NONE]))

\* lines 1099-1223: the timeline clip of a source reference
TimelineSource(ctx, seg, tl, track_index, timeline_position, edit_rate) ==
    With(SourceId(ctx.g, ctx.heap, seg.mob), LAMBDA source_id :
    With(MapGet(ctx.clips, source_id), LAMBDA matched :
    With(TimelineClipName(seg, ctx.g[seg.mob], ctx.clips, matched, Len(tl)),
         LAMBDA clip_name :
    With(timeline_position + ToMs(IF seg.start >= 0 THEN seg.start ELSE 0, edit_rate),
         LAMBDA clip_start :
    With(IF seg.length > 0 THEN ToMs(seg.length, edit_rate) ELSE 0, LAMBDA clip_length :
    With(IF matched > 0 /\ Truthy(ctx.clips[matched].external_path)
         THEN Basename(ctx.clips[matched].external_path) ELSE NONE,
         LAMBDA expected_filename :
        [name |-> clip_name, clip_id |-> source_id,
         is_embedded |-> IF matched > 0 THEN ctx.clips[matched].is_embedded ELSE FALSE,
         external_path |-> IF matched > 0 THEN ctx.clips[matched].external_path ELSE NONE,
         is_valid |-> IF matched > 0 THEN ctx.clips[matched].is_valid ELSE TRUE,
         error_message |-> NONE,
         track_index |-> track_index, timeline_start |-> clip_start,
         timeline_end |-> clip_start + clip_length,
         name_matches_file |-> IF matched > 0 /\ Truthy(ctx.clips[matched].external_path)
                               THEN (IF NamesMatch(clip_name, expected_filename)
                                     THEN "True" ELSE "False")
                               ELSE "None",
         expected_filename |-> expected_filename]))))))

\* lines 1225-1227: the position after a source clip of a positive length
PositionAfter(seg, timeline_position, edit_rate) ==
    IF seg.mob > 0 /\ seg.length > 0
    THEN timeline_position + ToMs(seg.length, edit_rate)
    ELSE timeline_position

RECURSIVE TimelineSegment(_, _, _, _, _, _, _)
RECURSIVE TimelineComponents(_, _, _, _, _, _, _)
RECURSIVE TimelineSegments(_, _, _, _, _, _, _)

\* a walk that goes one level deeper
TimelineSegmentDeeper(ctx, n, tl, track_index, timeline_position, edit_rate, depth) ==
    IF depth > MAX_DEPTH + 1 \/ RaisesOn(ctx.g[n], "mob") THEN tl
    ELSE Assigned(IF ctx.g[n].mob > 0
                  THEN Append(tl, TimelineSource(ctx, ctx.g[n], tl, track_index,
                                                 timeline_position, edit_rate))
                  ELSE tl,
                  LAMBDA tl1 :
             TimelineSegments(ctx, ctx.g[n].segments.list,
                 TimelineComponents(ctx, ctx.g[n].components.list, tl1, track_index,
                                    PositionAfter(ctx.g[n], timeline_position, edit_rate),
                                    edit_rate, depth),
                 track_index, PositionAfter(ctx.g[n], timeline_position, edit_rate),
                 edit_rate, depth))

\* _extract_timeline_clips_from_segment; tl is timeline_clips. The body is
\* one try block (lines 1094-1263).
\* TimelineComponents and TimelineSegments are its two loops; a segment
\* without the attribute has the empty list, on which the loop does nothing.
TimelineSegment(ctx, n, tl, track_index, timeline_position, edit_rate, depth) ==
    IF depth > MAX_DEPTH \/ RaisesOn(ctx.g[n], "mob") THEN tl
    ELSE Assigned(IF ctx.g[n].mob > 0
                  THEN Append(tl, TimelineSource(ctx, ctx.g[n], tl, track_index,
                                                 timeline_position, edit_rate))
                  ELSE tl,
                  LAMBDA tl1 :
             TimelineSegments(ctx, ctx.g[n].segments.list,
                 TimelineComponents(ctx, ctx.g[n].components.list, tl1, track_index,
                                    PositionAfter(ctx.g[n], timeline_position, edit_rate),
                                    edit_rate, depth),
                 track_index, PositionAfter(ctx.g[n], timeline_position, edit_rate),
                 edit_rate, depth))

TimelineComponents(ctx, comps, tl, track_index, timeline_position, edit_rate, depth) ==
    IF Len(comps) = 0 THEN tl
    ELSE With(ctx.g[comps[1]], LAMBDA comp :
            TimelineComponents(ctx, Tail(comps),
                TimelineSegment(ctx, comps[1], tl, track_index,
                                timeline_position
                                  + ToMs(IF comp.start >= 0 THEN comp.start ELSE 0, edit_rate),
                                edit_rate, depth + 1),
                track_index, timeline_position, edit_rate, depth))

TimelineSegments(ctx, segs, tl, track_index, timeline_position, edit_rate, depth) ==
    IF Len(segs) = 0 THEN tl
    ELSE TimelineSegments(ctx, Tail(segs),
             TimelineSegment(ctx, segs[1], tl, track_index, timeline_position,
                             edit_rate, depth + 1),
             track_index, timeline_position, edit_rate, depth)

\* lines 1044-1074: the tracks of one composition; acc = [tl, total, track]
RECURSIVE TimelineSlots(_, _, _, _)
TimelineSlots(ctx, slots, edit_rate, acc) ==
    IF Len(slots) = 0 THEN acc
    ELSE With(slots[1], LAMBDA slot :
         With(IF slot.start >= 0 THEN slot.start ELSE 0, LAMBDA slot_position :
            TimelineSlots(ctx, Tail(slots), edit_rate,
                IF slot.segment > 0
                THEN [tl |-> TimelineSegment(ctx, slot.segment, acc.tl, acc.track,
                                             ToMs(slot_position, edit_rate), edit_rate, 0),
                      total |-> IF slot.length >= 0
                                THEN Max(acc.total,
                                         ToMs(slot_position + slot.length, edit_rate))
                                ELSE acc.total,
                      track |-> acc.track + 1]
                ELSE acc)))

\* lines 1029-1077: the loop over the top-level compositions
RECURSIVE TimelineCompositions(_, _, _)
TimelineCompositions(ctx, comps, acc) ==
    IF Len(comps) = 0 THEN acc
    ELSE With(ctx.g[comps[1]], LAMBDA composition :
            TimelineCompositions(ctx, Tail(comps),
                IF ~RaisesOn(composition, "slots") /\ composition.slots.has
                THEN TimelineSlots(ctx, composition.slots.list,
                                   IF composition.edit_rate > 0 THEN composition.edit_rate
                                   ELSE DEFAULT_EDIT_RATE,
                                   [acc EXCEPT !.track = 0])
                ELSE acc))

\* _extract_timeline_clips_from_aaf once the reader has reopened the file:
\* <<timeline_clips, total_duration>>
TimelineAAF(ctx, content) ==
    With(TimelineCompositions(ctx, content.toplevel,
                              [tl |-> <<>>, total |-> 0, track |-> 0]),
         LAMBDA acc : <<acc.tl, acc.total>>)

(***************************************************************************)
(* Legacy Container Scanner. Sizes and offsets are in MB (1024 * 1024      *)
(* bytes). The file's content is a sequence of entries [off, text]: the    *)
(* runs of non-null bytes that hold text, each at an offset; text is       *)
(* ASCII, for which every decode attempt of the source gives the same      *)
(* string. The regular expressions are modelled by what they match in one  *)
(* such run.                                                               *)
(***************************************************************************)

MAX_OMF_SIZE == 200

MAX_FILE_SIZE == 100

READ_WINDOW == 50

\* a scan that reads the file to its end whatever its size
DataLenWhole(size) == size

\* lines 603-609 and 833-838: how much of a file of that size is read
DataLen(size) == IF size > MAX_FILE_SIZE THEN Min(READ_WINDOW, size) ELSE size

\* the entries that lie in the bytes read
Visible(entries, datalen) ==
    SelectSeq(entries, LAMBDA e : e.off < datalen)

Letters == {UpperSeq[i] : i \in 1..26} \cup {LowerSeq[i] : i \in 1..26}

Digits == {DigitSeq[i] : i \in 1..10}

\* c.isalnum()
IsAlnum(c) == c \in Letters \cup Digits

\* bytes below 32 other than \n, \r, \t; ^A and ^B stand for two of them
ControlChars == {"^A", "^B"}

\* c.isprintable() or c in '\n\r\t'
IsPrintable(c) == c \notin ControlChars

\* the bytes \x20-\x7E
IsAsciiPrintable(c) == c \notin ControlChars /\ c \notin {"\t", "\n", "\r"}

CountChars(s, P(_)) == Cardinality({i \in 1..Len(s) : P(s[i])})

\* _is_valid_path_string; the ratios are compared in exact arithmetic
is_valid_path_string(s) ==
    With(Basename(s), LAMBDA filename :
    With(SplitExt(filename)[2], LAMBDA ext :
       /\ Len(s) >= 4
       /\ ~(10 * CountChars(s, IsPrintable) < 7 * Len(s))
       /\ ~(10 * CountChars(s, LAMBDA c : c \in ControlChars) > Len(s))
       /\ ~(10 * CountChars(filename, LAMBDA c : IsAlnum(c)
                                \/ c \in {" ", ".", "-", "_", "(", ")", "[", "]"})
              < 6 * Len(filename))
       /\ ~(ext # <<>> /\ (Len(ext) > 10 \/ \E i \in 2..Len(ext) : ~IsAlnum(ext[i])))))

\* lines 524 and 645-646
AudioExts == <<EXT_wav, EXT_aif, EXT_aiff, EXT_mp3, EXT_m4a, EXT_caf, EXT_sd2>>

UpperOf(c) ==
    IF \E i \in 1..26 : LowerSeq[i] = c
    THEN UpperSeq[CHOOSE i \in 1..26 : LowerSeq[i] = c]
    ELSE c

Upper(s) == [i \in 1..Len(s) |-> UpperOf(s[i])]

\* the 14 patterns of Method 1, in the order of the source's list
AudioExtPatterns == AudioExts \o [i \in 1..Len(AudioExts) |-> Upper(AudioExts[i])]

IsAudioExt(ext) == \E i \in 1..Len(AudioExts) : AudioExts[i] = ext

HasSep(s) == HasChar(s, "/") \/ HasChar(s, "\\")

\* the last index at which sub ends in s when at least one character precedes
\* it, 0 when there is none
LastEnd(s, sub) ==
    With({e \in (Len(sub) + 1)..Len(s) : SubSeq(s, e - Len(sub) + 1, e) = sub},
         LAMBDA ends : IF ends = {} THEN 0 ELSE CHOOSE e \in ends : \A f \in ends : f <= e)

\* how many of the characters after index e, at most 10, are \x20-\x7E
RECURSIVE Trailer(_, _, _)
Trailer(s, e, n) ==
    IF n < 10 /\ e + n + 1 <= Len(s) /\ IsAsciiPrintable(s[e + n + 1])
    THEN Trailer(s, e, n + 1) ELSE n

\* lines 652-657: the greedy match of [^\x00]{1,300}<ext>[\x00\x20-\x7E]{0,10}
\* in one run, cut at the first null and right-stripped; NONE without a match
Method1Match(text, ext) ==
    With(LastEnd(text, ext), LAMBDA e :
        IF e = 0 \/ e - Len(ext) > 300 THEN NONE
        ELSE RStrip(Take(text, e + Trailer(text, e, 0))))

\* lines 675-691: resolution of a Method 1 candidate
Resolve1(d, base_dir, path_str) ==
    IF ~IsAbs(path_str)
    THEN IF PathExists(d, Join(base_dir, path_str))
         THEN NormPath(Join(base_dir, path_str))
         ELSE IF PathExists(d, Join(base_dir, NormPath(path_str)))
         THEN NormPath(Join(base_dir, NormPath(path_str)))
         ELSE NormPath(path_str)
    ELSE NormPath(path_str)

\* lines 727-734 and 767-774: resolution of a Method 2 or Method 3 candidate
Resolve23(d, base_dir, path_str) ==
    IF ~IsAbs(path_str)
    THEN IF PathExists(d, Join(base_dir, path_str))
         THEN NormPath(Join(base_dir, path_str))
         ELSE NormPath(path_str)
    ELSE NormPath(path_str)

\* lines 654-692: what one match of Method 1 appends to file_paths
Method1One(d, base_dir, text, ext) ==
    With(Method1Match(text, ext), LAMBDA m :
    With(IF m = NONE THEN <<>> ELSE Strip(m), LAMBDA path_str :
        IF m # NONE /\ Len(path_str) > 4 /\ HasSep(path_str)
           /\ is_valid_path_string(path_str)
        THEN <<Resolve1(d, base_dir, path_str)>>
        ELSE <<>>))

RECURSIVE Method1Entries(_, _, _, _)
Method1Entries(d, base_dir, entries, ext) ==
    IF Len(entries) = 0 THEN <<>>
    ELSE Method1One(d, base_dir, entries[1].text, ext)
         \o Method1Entries(d, base_dir, Tail(entries), ext)

RECURSIVE Method1(_, _, _, _)
Method1(d, base_dir, entries, exts) ==
    IF Len(exts) = 0 THEN <<>>
    ELSE Method1Entries(d, base_dir, entries, exts[1])
         \o Method1(d, base_dir, entries, Tail(exts))

\* line 699: where [A-Za-z]:[\\/][^\x00\n\r]{4,260} first matches, 0 when
\* it does not
DriveStart(text) ==
    With({i \in 1..(Len(text) - 6) :
             /\ text[i] \in Letters /\ text[i + 1] = ":"
             /\ text[i + 2] \in {"\\", "/"}},
         LAMBDA hits : IF hits = {} THEN 0 ELSE CHOOSE i \in hits : \A j \in hits : i <= j)

\* line 701: where /[^\x00\n\r]{4,260} first matches, 0 when it does not
SlashStart(text) ==
    With(Find(text, "/"), LAMBDA i : IF i > 0 /\ Len(text) - i >= 4 THEN i ELSE 0)

\* lines 707-735: what one match of Method 2 appends to file_paths
Method2One(d, base_dir, text, start, maxlen) ==
    With(Strip(SubSeq(text, start, Min(Len(text), start + maxlen - 1))), LAMBDA path_str :
        IF start > 0 /\ Len(path_str) > 4 /\ HasChar(path_str, ".")
           /\ is_valid_path_string(path_str)
           /\ Len(SplitExt(path_str)[2]) > 0
        THEN <<Resolve23(d, base_dir, path_str)>>
        ELSE <<>>)

RECURSIVE Method2Drive(_, _, _)
Method2Drive(d, base_dir, entries) ==
    IF Len(entries) = 0 THEN <<>>
    ELSE Method2One(d, base_dir, entries[1].text, DriveStart(entries[1].text), 263)
         \o Method2Drive(d, base_dir, Tail(entries))

RECURSIVE Method2Slash(_, _, _)
Method2Slash(d, base_dir, entries) ==
    IF Len(entries) = 0 THEN <<>>
    ELSE Method2One(d, base_dir, entries[1].text, SlashStart(entries[1].text), 261)
         \o Method2Slash(d, base_dir, Tail(entries))

\* lines 748-775: what one null-delimited chunk appends to file_paths
Method3One(d, base_dir, text) ==
    With(Strip(text), LAMBDA candidate :
        IF Len(text) >= 10 /\ Len(text) <= 260
           /\ HasSep(candidate) /\ HasChar(candidate, ".")
           /\ Len(SplitExt(candidate)[2]) > 0
           /\ is_valid_path_string(candidate)
           /\ IsAudioExt(Lower(SplitExt(candidate)[2]))
        THEN <<Resolve23(d, base_dir, candidate)>>
        ELSE <<>>)

RECURSIVE Method3(_, _, _)
Method3(d, base_dir, entries) ==
    IF Len(entries) = 0 THEN <<>>
    ELSE Method3One(d, base_dir, entries[1].text) \o Method3(d, base_dir, Tail(entries))

\* lines 784-790: duplicates removed by normalized path, first-seen order
RECURSIVE Unique(_, _)
Unique(paths, seen) ==
    IF Len(paths) = 0 THEN <<>>
    ELSE With(NormPath(paths[1]), LAMBDA normalized :
            IF normalized \in seen THEN Unique(Tail(paths), seen)
            ELSE <<normalized>> \o Unique(Tail(paths), seen \cup {normalized}))

\* _extract_omf_file_paths on the entries in the bytes read
extract_omf_file_paths(d, base_dir, entries) ==
    Unique(Method1(d, base_dir, entries, AudioExtPatterns)
           \o Method2Drive(d, base_dir, entries)
           \o Method2Slash(d, base_dir, entries)
           \o Method3(d, base_dir, entries), {})

\* _extract_omf_essence_references
extract_omf_essence_references == <<>>

T_omf_clip_ == <<"o","m","f","_","c","l","i","p","_">>

T_omf_ref_ == <<"o","m","f","_","r","e","f","_">>

\* lines 519-543: the clips of the file paths; clip_counter = Len(clips) + 1
RECURSIVE PathClips(_, _, _)
PathClips(paths, clips, processed_paths) ==
    IF Len(paths) = 0 THEN clips
    ELSE With(paths[1], LAMBDA file_path_str :
         With(Lower(SplitExt(file_path_str)[2]), LAMBDA file_ext :
         With(Len(clips) + 1, LAMBDA clip_counter :
         With(Basename(file_path_str), LAMBDA base :
            IF file_path_str # <<>> /\ file_path_str \notin processed_paths
            THEN PathClips(Tail(paths),
                     IF IsAudioExt(file_ext) \/ file_ext = <<>>
                     THEN Append(clips,
                                 MediaClip(IF base # <<>> THEN base
                                           ELSE T_AudioClip \o Str(clip_counter),
                                           T_omf_clip_ \o Str(clip_counter),
                                           FALSE, file_path_str))
                     ELSE clips,
                     processed_paths \cup {file_path_str})
            ELSE PathClips(Tail(paths), clips, processed_paths)))))

(***************************************************************************)
(* The aggressive fallback: _aggressive_omf_parse.                         *)
(***************************************************************************)

AGGR_MAX_CLIPS == 1000

AGGR_LOOKBACK == 50

\* line 849: the end of the greedy match of
\* [^\x00]{1,200}\.(wav|...|SD2)(\x00|[\x20-\x7E]{0,10}) in one run: the last
\* place where an extension of the list ends; 0 without a match
AggressiveEnd(text) ==
    With({LastEnd(text, AudioExtPatterns[i]) : i \in 1..Len(AudioExtPatterns)},
         LAMBDA ends : CHOOSE m \in ends : \A n \in ends : n <= m)

\* line 861: match.group(0)
AggressiveMatch(text) ==
    With(AggressiveEnd(text), LAMBDA e :
        IF e = 0 THEN NONE ELSE Take(text, e + Trailer(text, e, 0)))

\* lines 863-869: the backward search for a separator, 1-based; 1 when none
\* is found within the lookback
PathStart(match_bytes) ==
    With({i \in 1..Len(match_bytes) :
             /\ match_bytes[i] \in {"\\", "/", ":"}
             /\ i >= Len(match_bytes) - AGGR_LOOKBACK},
         LAMBDA hits : IF hits = {} THEN 1 ELSE CHOOSE i \in hits : \A j \in hits : j <= i)

\* a fallback whose clips all get the first id
AggressiveOneUnnumbered(base_dir, text, clip_counter) ==
    With(AggressiveMatch(text), LAMBDA m :
    With(IF m = NONE THEN <<>> ELSE Strip(Drop(m, PathStart(m) - 1)), LAMBDA path_str :
        IF m # NONE /\ Len(path_str) > 4 /\ HasSep(path_str)
        THEN <<MediaClip(Basename(path_str), T_omf_ref_ \o Str(1), FALSE,
                         IF ~IsAbs(path_str) THEN Join(base_dir, path_str) ELSE path_str)>>
        ELSE <<>>))

\* lines 859-895: the clip of one match, <<>> when it gives none
AggressiveOne(base_dir, text, clip_counter) ==
    With(AggressiveMatch(text), LAMBDA m :
    With(IF m = NONE THEN <<>> ELSE Strip(Drop(m, PathStart(m) - 1)), LAMBDA path_str :
    With(Basename(path_str), LAMBDA base :
        IF m # NONE /\ Len(path_str) > 4 /\ HasSep(path_str)
        THEN <<MediaClip(IF base # <<>> THEN base
                         ELSE T_AudioReference \o Str(clip_counter),
                         T_omf_ref_ \o Str(clip_counter), FALSE,
                         IF ~IsAbs(path_str) THEN Join(base_dir, path_str) ELSE path_str)>>
        ELSE <<>>)))

\* _aggressive_omf_parse on the entries in the bytes read
RECURSIVE aggressive_omf_parse(_, _, _)
aggressive_omf_parse(base_dir, entries, clips) ==
    IF Len(entries) = 0 \/ Len(clips) + 1 > AGGR_MAX_CLIPS THEN clips
    ELSE aggressive_omf_parse(base_dir, Tail(entries),
             clips \o AggressiveOne(base_dir, entries[1].text, Len(clips) + 1))

\* lines 507-569 of _parse_omf_file: the clips of a file that was opened
ParseOMF(d, f) ==
    With(Dirname(AbsPath(f.path)), LAMBDA omf_dir :
    With(Visible(f.entries, DataLen(f.size)), LAMBDA entries :
    With(PathClips(extract_omf_file_paths(d, omf_dir, entries), <<>>, {}), LAMBDA clips :
        IF Len(clips) = 0 THEN aggressive_omf_parse(omf_dir, entries, <<>>) ELSE clips)))

\* line 562: whether the file is handed to _aggressive_omf_parse
ParseOMFFallsBack(d, f) ==
    Len(PathClips(extract_omf_file_paths(d, Dirname(AbsPath(f.path)),
                                         Visible(f.entries, DataLen(f.size))),
                  <<>>, {})) = 0

(***************************************************************************)
(* Timeline Reconstructor, legacy format: _extract_timeline_clips_from_omf *)
(***************************************************************************)

CLIPS_PER_TRACK == 10

BYTES_PER_SECOND == 192000

DEFAULT_DURATION_MS == 5000

T_omf_timeline_ == <<"o","m","f","_","t","i","m","e","l","i","n","e","_">>

\* an estimate without the floor of one second
EstimatedDurationUnfloored(d, clip) ==
    IF Truthy(clip.external_path) /\ PathExists(d, clip.external_path)
    THEN (PathSize(d, clip.external_path) * 1000) \div BYTES_PER_SECOND
    ELSE DEFAULT_DURATION_MS

\* lines 1305-1318: estimated_duration, in milliseconds
EstimatedDuration(d, clip) ==
    IF Truthy(clip.external_path) /\ PathExists(d, clip.external_path)
    THEN Max(1000, (PathSize(d, clip.external_path) * 1000) \div BYTES_PER_SECOND)
    ELSE DEFAULT_DURATION_MS

\* lines 1300-1353; acc = [tl, current_time, total]; i is enumerate's index
RECURSIVE TimelineOMFLoop(_, _, _, _)
TimelineOMFLoop(d, clips, i, acc) ==
    IF i >= Len(clips) THEN acc
    ELSE With(clips[i + 1], LAMBDA clip :
         With(acc.current_time, LAMBDA clip_start :
         With(clip_start + EstimatedDuration(d, clip), LAMBDA clip_end :
         With(IF Truthy(clip.external_path) THEN Basename(clip.external_path) ELSE NONE,
              LAMBDA expected_filename :
            TimelineOMFLoop(d, clips, i + 1,
                [tl |-> Append(acc.tl,
                     [name |-> clip.name,
                      clip_id |-> IF Truthy(clip.clip_id) THEN clip.clip_id
                                  ELSE T_omf_timeline_ \o Str(i),
                      is_embedded |-> clip.is_embedded,
                      external_path |-> clip.external_path,
                      is_valid |-> clip.is_valid, error_message |-> NONE,
                      track_index |-> i \div CLIPS_PER_TRACK,
                      timeline_start |-> clip_start, timeline_end |-> clip_end,
                      name_matches_file |->
                          IF Truthy(clip.external_path)
                          THEN (IF NamesMatch(clip.name, expected_filename)
                                THEN "True" ELSE "False")
                          ELSE "None",
                      expected_filename |-> expected_filename]),
                 current_time |-> IF (i + 1) % CLIPS_PER_TRACK = 0 THEN 0 ELSE clip_end,
                 total |-> Max(acc.total, clip_end)])))))

\* _extract_timeline_clips_from_omf: <<timeline_clips, total_duration>>
TimelineOMF(d, clips) ==
    With(TimelineOMFLoop(d, clips, 0, [tl |-> <<>>, current_time |-> 0, total |-> 0]),
         LAMBDA acc :
            <<acc.tl,
              IF Len(acc.tl) > 0 /\ acc.total = 0 THEN Len(acc.tl) * DEFAULT_DURATION_MS
              ELSE acc.total>>)

(***************************************************************************)
(* One run of the program: __main__ calling validate_omf_aaf_media.        *)
(***************************************************************************)

VARIABLES
    file,            \* the container: [path, readable, header, size, entries, content, open_fails, reopen_fails]
    disk,            \* the filesystem
    aaf_support,     \* AAF_SUPPORT: whether the graph reader could be imported
    pc,              \* the phase the run is in
    file_type,       \* _detect_file_type's result
    all_clips,       \* the extracted clips
    vi,              \* the Validate loop's position in all_clips
    missing_clips,   \* the Validate loop's list of invalid clips
    counts,          \* embedded_count, linked_count, valid_count, missing_clips_count
    timeline,        \* <<timeline_clips, total_duration>>
    report,          \* the ValidationReport, <<>> before it is built
    stdout,          \* the reports printed to standard output
    error,           \* the exception that reached __main__, "none" when none did
    exit_code,       \* the process's exit status, -1 while it runs
    io,              \* bytes read from the container: [header (bytes), scan, aggr (MB)]
    run,             \* 1 for the first run on the input, 2 for the second
    first            \* what the first run printed and returned, <<>> before it ended

env == <<file, disk, aaf_support>>

runvars == <<pc, file_type, all_clips, vi, missing_clips, counts, timeline, report,
             stdout, error, exit_code, io>>

vars == <<file, disk, aaf_support, pc, file_type, all_clips, vi, missing_clips, counts,
          timeline, report, stdout, error, exit_code, io, run, first>>

NoCounts == [embedded |-> 0, linked |-> 0, valid |-> 0, missing |-> 0]

NoIO == [header |-> 0, scan |-> 0, aggr |-> 0]

\* the state of a process that has just been started on its argument
Fresh ==
    /\ pc = "Start"
    /\ file_type = "none"
    /\ all_clips = <<>>
    /\ vi = 1
    /\ missing_clips = <<>>
    /\ counts = NoCounts
    /\ timeline = << <<>>, 0 >>
    /\ report = <<>>
    /\ stdout = <<>>
    /\ error = "none"
    /\ exit_code = -1
    /\ io = NoIO

\* an exception propagates to __main__
Raise(kind) ==
    /\ pc' = "Raised"
    /\ error' = kind

\* lines 925-927: the input path must exist
Start ==
    /\ pc = "Start"
    /\ IF ~PathExists(disk, file.path)
       THEN Raise("FileNotFound")
       ELSE pc' = "DetectFormat" /\ error' = error
    /\ UNCHANGED <<env, file_type, all_clips, vi, missing_clips, counts, timeline, report,
                   stdout, exit_code, io, run, first>>

\* lines 929-933
DetectFormat ==
    /\ pc = "DetectFormat"
    /\ file_type' = DetectFileType(file)
    /\ io' = [io EXCEPT !.header = IF DetectPeeks(file) /\ file.readable
                                   THEN Min(HEADER_PEEK, Len(file.header)) ELSE 0]
    /\ IF file_type' = "unknown"
       THEN Raise("UnknownFormat")
       ELSE pc' = "Extract" /\ error' = error
    /\ UNCHANGED <<env, all_clips, vi, missing_clips, counts, timeline, report,
                   stdout, exit_code, run, first>>

NumHeaps == 2

\* the heaps a process may get: they decide the addresses id() returns
Heaps == 1..NumHeaps

\* line 937 and _parse_aaf_file
ExtractAAF ==
    /\ pc = "Extract"
    /\ file_type = "aaf"
    /\ \/ /\ ~aaf_support
          /\ Raise("CapabilityUnavailable")
          /\ UNCHANGED all_clips
       \/ /\ aaf_support
          /\ file.open_fails
          /\ Raise("ParseError")
          /\ UNCHANGED all_clips
       \/ /\ aaf_support
          /\ ~file.open_fails
          /\ \E heap \in Heaps :
                all_clips' = ParseAAF([g |-> file.content.nodes, heap |-> heap,
                                       fpath |-> file.path], file.content)
          /\ pc' = "Validate"
          /\ error' = error
    /\ UNCHANGED <<env, file_type, vi, missing_clips, counts, timeline, report,
                   stdout, exit_code, io, run, first>>

\* line 939 and _parse_omf_file
ExtractOMF ==
    /\ pc = "Extract"
    /\ file_type = "omf"
    /\ \/ /\ file.size > MAX_OMF_SIZE
          /\ Raise("FileTooLarge")
          /\ UNCHANGED <<all_clips, io>>
       \/ /\ file.size <= MAX_OMF_SIZE
          /\ ~file.readable
          /\ Raise("ParseError")
          /\ UNCHANGED <<all_clips, io>>
       \/ /\ file.size <= MAX_OMF_SIZE
          /\ file.readable
          /\ all_clips' = ParseOMF(disk, file)
          /\ io' = [io EXCEPT !.scan = DataLen(file.size),
                              !.aggr = IF ParseOMFFallsBack(disk, file)
                                       THEN DataLen(file.size) ELSE 0]
          /\ pc' = "Validate"
          /\ error' = error
    /\ UNCHANGED <<env, file_type, vi, missing_clips, counts, timeline, report,
                   stdout, exit_code, run, first>>

\* lines 946-968: one iteration of the Validate loop
ValidateClip ==
    /\ pc = "Validate"
    /\ vi <= Len(all_clips)
    /\ all_clips' = [all_clips EXCEPT ![vi] = ValidateOne(disk, all_clips[vi])]
    /\ missing_clips' = IF ValidateOutcome(disk, all_clips[vi]) # NONE
                        THEN Append(missing_clips, all_clips'[vi]) ELSE missing_clips
    /\ vi' = vi + 1
    /\ UNCHANGED <<env, pc, file_type, counts, timeline, report, stdout, error,
                   exit_code, io, run, first>>

\* lines 971-974
embedded_count(clips) == CountIf(clips, LAMBDA c : c.is_embedded)

\* a count of the linked clips that goes by the path and not by the flag
linked_count_by_path(clips) == CountIf(clips, LAMBDA c : Truthy(c.external_path))

linked_count(clips) == CountIf(clips, LAMBDA c : ~c.is_embedded)

valid_count(clips) == CountIf(clips, LAMBDA c : c.is_valid)

\* a count that does not wait for the Validate loop to end
CountClipsEarly ==
    /\ pc = "Validate"
    /\ counts' = [embedded |-> embedded_count(all_clips), linked |-> linked_count(all_clips),
                  valid |-> valid_count(all_clips), missing |-> Len(missing_clips)]
    /\ pc' = "ReconstructTimeline"
    /\ UNCHANGED <<env, file_type, all_clips, vi, missing_clips, timeline, report, stdout,
                   error, exit_code, io, run, first>>

\* lines 971-974: the loop has ended, the clips are counted
CountClips ==
    /\ pc = "Validate"
    /\ vi > Len(all_clips)
    /\ counts' = [embedded |-> embedded_count(all_clips), linked |-> linked_count(all_clips),
                  valid |-> valid_count(all_clips), missing |-> Len(missing_clips)]
    /\ pc' = "ReconstructTimeline"
    /\ UNCHANGED <<env, file_type, all_clips, vi, missing_clips, timeline, report, stdout,
                   error, exit_code, io, run, first>>

\* a timeline pass that lets the reader's exception leave the validation
ReconstructTimelineAAFAborting ==
    /\ pc = "ReconstructTimeline"
    /\ file_type = "aaf"
    /\ \/ /\ (~aaf_support \/ file.reopen_fails)
          /\ Raise("ParseError")
          /\ UNCHANGED timeline
       \/ /\ aaf_support /\ ~file.reopen_fails
          /\ \E heap \in Heaps :
                timeline' = TimelineAAF([g |-> file.content.nodes, heap |-> heap,
                                         fpath |-> file.path, clips |-> all_clips],
                                        file.content)
          /\ pc' = "BuildReport"
          /\ error' = error
    /\ UNCHANGED <<env, file_type, all_clips, vi, missing_clips, counts, report, stdout,
                   exit_code, io, run, first>>

\* line 980 and _extract_timeline_clips_from_aaf
ReconstructTimelineAAF ==
    /\ pc = "ReconstructTimeline"
    /\ file_type = "aaf"
    /\ \/ /\ (~aaf_support \/ file.reopen_fails)
          /\ timeline' = << <<>>, 0 >>
       \/ /\ aaf_support /\ ~file.reopen_fails
          /\ \E heap \in Heaps :
                timeline' = TimelineAAF([g |-> file.content.nodes, heap |-> heap,
                                         fpath |-> file.path, clips |-> all_clips],
                                        file.content)
    /\ pc' = "BuildReport"
    /\ UNCHANGED <<env, file_type, all_clips, vi, missing_clips, counts, report, stdout,
                   error, exit_code, io, run, first>>

\* line 982 and _extract_timeline_clips_from_omf
ReconstructTimelineOMF ==
    /\ pc = "ReconstructTimeline"
    /\ file_type = "omf"
    /\ timeline' = TimelineOMF(disk, all_clips)
    /\ pc' = "BuildReport"
    /\ UNCHANGED <<env, file_type, all_clips, vi, missing_clips, counts, report, stdout,
                   error, exit_code, io, run, first>>

\* lines 985-997
BuildReport ==
    /\ pc = "BuildReport"
    /\ report' = << [total_clips |-> Len(all_clips),
                     embedded_clips |-> counts.embedded,
                     linked_clips |-> counts.linked,
                     missing_clips |-> counts.missing,
                     valid_clips |-> counts.valid,
                     missing_clip_details |-> missing_clips,
                     file_path |-> file.path,
                     timeline_clips |-> timeline[1],
                     total_duration |-> timeline[2]] >>
    /\ pc' = "Output"
    /\ UNCHANGED <<env, file_type, all_clips, vi, missing_clips, counts, timeline, stdout,
                   error, exit_code, io, run, first>>

\* an exit status that does not look at the report
ExitAlwaysZero(rep) == 0

\* lines 3994-4017: the report is printed and decides the exit status
ExitStatus(rep) == IF rep.missing_clips > 0 THEN 1 ELSE 0

MainOutput ==
    /\ pc = "Output"
    /\ stdout' = Append(stdout, report[1])
    /\ exit_code' = ExitStatus(report[1])
    /\ pc' = "End"
    /\ UNCHANGED <<env, file_type, all_clips, vi, missing_clips, counts, timeline, report,
                   error, io, run, first>>

\* lines 4018-4020: except Exception: the message goes to stderr, exit 1
ErrorStatus == 1

MainError ==
    /\ pc = "Raised"
    /\ exit_code' = ErrorStatus
    /\ pc' = "End"
    /\ UNCHANGED <<env, file_type, all_clips, vi, missing_clips, counts, timeline, report,
                   stdout, error, io, run, first>>

\* the same command is started again on the same file and filesystem
Rerun ==
    /\ pc = "End"
    /\ run = 1
    /\ run' = 2
    /\ first' = <<[stdout |-> stdout, exit_code |-> exit_code, error |-> error]>>
    /\ pc' = "Start"
    /\ file_type' = "none"
    /\ all_clips' = <<>>
    /\ vi' = 1
    /\ missing_clips' = <<>>
    /\ counts' = NoCounts
    /\ timeline' = << <<>>, 0 >>
    /\ report' = <<>>
    /\ stdout' = <<>>
    /\ error' = "none"
    /\ exit_code' = -1
    /\ io' = NoIO
    /\ UNCHANGED env

Next ==
    \/ Start
    \/ DetectFormat
    \/ ExtractAAF
    \/ ExtractOMF
    \/ ValidateClip
    \/ CountClips
    \/ ReconstructTimelineAAF
    \/ ReconstructTimelineOMF
    \/ BuildReport
    \/ MainOutput
    \/ MainError

(***************************************************************************)
(* The inputs the runs are checked on.                                     *)
(***************************************************************************)

\* media paths and names the containers mention
M_rel == <<"m","/","a",".","w","a","v">>

M_abs == <<"/","p","/","m","/","a",".","w","a","v">>

M_other == <<"/","q","/","b",".","w","a","v">>

M_unnorm == <<"/","p","/","m","/",".",".","/","m","/","a",".","w","a","v">>

M_relup == <<"x","/",".",".","/","m","/","a",".","w","a","v">>

M_url == <<"f","i","l","e",":","/","/","/","p","/","m","/","a",".","w","a","v">>

M_http == <<"h","t","t","p",":","/","/","h","/","a",".","w","a","v">>

M_missing == <<"x","/","b",".","w","a","v">>

M_win == <<"C",":","\\","A","\\","t",".","w","a","v">>

M_txt == <<"/","q","/","n",".","t","x","t">>

M_dir_m == <<"/","p","/","m">>

M_dir_q == <<"/","q">>

NM_a_wav == <<"a",".","w","a","v">>

NM_A == <<"A">>

NM_vo == <<"V","O","_","4">>

NM_blank == <<" "," ">>

NM_Unnamed == <<"U","n","n","a","m","e","d">>

NM_SourceClip == <<"S","o","u","r","c","e","C","l","i","p">>

NM_comp == <<"C","o","m","p">>

K_Sound == <<"S","o","u","n","d">>

K_Picture == <<"P","i","c","t","u","r","e">>

TY_PCM == <<"P","C","M","D","e","s","c","r","i","p","t","o","r">>

TY_Sound == <<"S","o","u","n","d","D","e","s","c","r","i","p","t","o","r">>

ID_c1 == <<"c","1">>

ID_a == <<"u","a">>

ID_b == <<"u","b">>

ID_f == <<"u","f">>

HD_aaf_mid == <<"x","x","A","A","F","x","x","x","x","x","x","x","x","x","x","x","x","x">>

HD_aaf_late == <<"x","x","x","x","x","x","A","A","F","x","x","x","x","x","x","x","x","x">>

HD_omfi == <<"O","M","F","I","x","x","x","x">>

HD_0001 == <<"00","00","00","01","x","x","x","x">>

HD_01 == <<"00","01","00","00","x","x","x","x">>

HD_junk == <<"x","x","x","x","x","x","x","x">>

HD_short == <<"O">>

\* a name of 52 characters that are no filename characters, then .wav: too
\* long for the aggressive scan's lookback to reach the separator before it
M_long == <<"x","/",".",".","/">> \o [i \in 1..52 |-> "#"] \o EXT_wav

File(path, readable, header, size, entries, content, open_fails, reopen_fails) ==
    [path |-> path, readable |-> readable, header |-> header, size |-> size,
     entries |-> entries, content |-> content, open_fails |-> open_fails,
     reopen_fails |-> reopen_fails]

DirEntry(p) == [path |-> p, kind |-> "dir", size |-> 0]

FileEntry(p, size) == [path |-> p, kind |-> "file", size |-> size]

\* the directories of the model and the container itself
BaseDisk(container) == {DirEntry(<<"/">>), DirEntry(CWD), FileEntry(container, 1)}

\* what may be on the disk besides: the media file present, absent, or a
\* directory of that name; a second media file
MediaDisks ==
    { {},
      {DirEntry(M_dir_m), FileEntry(M_abs, 96000)},
      {DirEntry(M_dir_m), DirEntry(M_abs)},
      {DirEntry(M_dir_m), FileEntry(M_abs, 384000), DirEntry(M_dir_q),
       FileEntry(M_other, 192000)} }

EmptyContent == [nodes |-> <<>>, toplevel |-> <<>>, mobs |-> <<>>]

\* a source mob
Mob(mob_id, name, descriptor, essence, slots) ==
    [Obj EXCEPT !.mob_id = mob_id, !.name = name, !.descriptor = descriptor,
                !.essence = essence, !.slots = slots]

Descriptor(type, name, locator, essence, essence_data) ==
    [has |-> TRUE, type |-> type, name |-> name, locator |-> locator,
     essence |-> essence, essence_data |-> essence_data]

\* a source clip: a segment that refers to a mob
SourceClip(name, mob, start, length) ==
    [Obj EXCEPT !.name = name, !.mob = mob, !.start = start, !.length = length]

\* a composition whose one track holds a sequence of two source clips
\* (shape "seq"), or whose two tracks hold one source clip each ("tracks");
\* the clips refer to mobs 5 and second; mob 5 is a, mob 6 is b; mob 8 is a
\* file source that node 7 refers to
Graph(shape, segname, second, a, b) ==
    [nodes |->
       << [Obj EXCEPT !.name = NM_comp, !.mob_id = ID_c1,
                      !.slots = ListOf(IF shape = "seq"
                                       THEN <<Slot(2, K_Sound, 0, 144000)>>
                                       ELSE <<Slot(3, K_Sound, 0, 48000),
                                              Slot(4, K_Sound, 48000, 96000)>>)],
          [Obj EXCEPT !.components = ListOf(<<3, 4>>), !.length = 144000],
          SourceClip(segname, 5, 0, 48000),
          SourceClip(ABSENT, second, 0, 96000),
          a,
          b,
          SourceClip(ABSENT, 8, 0, 48000),
          Mob(ID_f, NM_a_wav, Descriptor(TY_PCM, ABSENT, PathLocator(M_rel), FALSE, FALSE),
              FALSE, NoList) >>,
     toplevel |-> <<1>>,
     mobs |-> <<1, 5, 6, 8>>]

Locators ==
    {NoLocator, ListLocator, PathLocator(M_rel), PathLocator(M_unnorm), PathLocator(<<>>),
     UrlLocator(M_url), UrlLocator(M_http), PathLocator(M_other)}

SlotLists ==
    {NoList, ListOf(<<>>), ListOf(<<Slot(0, K_Sound, 0, 0)>>),
     ListOf(<<Slot(0, K_Picture, 0, 0)>>), ListOf(<<Slot(7, ABSENT, 0, 0)>>)}

\* mobs that differ in how their media is found: locator, essence, slots
ClassMobs ==
    {Mob(ID_a, NM_vo, Descriptor(TY_PCM, ABSENT, loc, ess, FALSE), FALSE, slots) :
        loc \in Locators, ess \in BOOLEAN, slots \in SlotLists}
    \cup {Mob(ID_a, NM_vo, NoDescriptor, ess, slots) : ess \in BOOLEAN, slots \in SlotLists}
    \cup {Mob(ID_a, NM_vo, Descriptor(TY_Sound, ABSENT, NoLocator, FALSE, TRUE), FALSE,
              ListOf(<<>>))}

Names == {ABSENT, NONE, <<>>, NM_blank, NM_Unnamed, NM_SourceClip, NM_a_wav, NM_A}

\* mobs that differ in their names and in having a mob_id
NameMobs ==
    {Mob(id, name, Descriptor(TY_PCM, dname, loc, FALSE, FALSE), FALSE, ListOf(<<>>)) :
        id \in {ID_a, ABSENT}, name \in Names, dname \in {ABSENT, NM_blank, NM_vo},
        loc \in {NoLocator, PathLocator(M_rel)}}

PlainMob == Mob(ID_b, NM_A, Descriptor(TY_PCM, ABSENT, PathLocator(M_other), FALSE, FALSE),
                FALSE, NoList)

SilentMob == Mob(ABSENT, ABSENT, NoDescriptor, FALSE, ListOf(<<>>))

GraphInputs ==
    {[file |-> File(P_show_aaf, TRUE, HD_junk, 1, <<>>, content, FALSE, FALSE),
      disk |-> BaseDisk(P_show_aaf) \cup media, aaf_support |-> TRUE] :
        content \in {Graph(shape, ABSENT, second, a, PlainMob) :
                        shape \in {"seq", "tracks"}, second \in {5, 6}, a \in ClassMobs}
                    \cup {Graph("seq", segname, 6, a, b) :
                            segname \in {ABSENT, NM_blank, NM_Unnamed, NM_a_wav},
                            a \in NameMobs, b \in {PlainMob, SilentMob}},
        media \in MediaDisks}

Entry(off, text) == [off |-> off, text |-> text]

\* what a legacy container holds: path strings at offsets, in MB
EntryLists ==
    { <<>>,
      <<Entry(0, M_rel)>>,
      <<Entry(0, M_missing)>>,
      <<Entry(0, M_relup), Entry(10, M_other)>>,
      <<Entry(0, M_win), Entry(60, M_abs)>>,
      <<Entry(0, M_txt), Entry(90, M_rel)>>,
      <<Entry(0, M_long)>>,
      <<Entry(0, M_long), Entry(160, M_other)>>,
      <<Entry(70, M_abs)>>,
      <<Entry(0, M_abs), Entry(1, M_unnorm), Entry(2, M_abs)>> }

\* sizes on both sides of the two limits
Sizes == {1, 100, 101, 150, 200, 201, 250}

\* the entry lists that fit in a file of that size
EntriesOf(size) == {es \in EntryLists : \A i \in 1..Len(es) : es[i].off < size}

LegacyInputs ==
    UNION {{[file |-> File(P_show_omf, TRUE, HD_omfi, size, entries, EmptyContent, FALSE, FALSE),
             disk |-> BaseDisk(P_show_omf) \cup media, aaf_support |-> TRUE] :
               entries \in EntriesOf(size), media \in MediaDisks} : size \in Sizes}

Headers == {HD_aaf_mid, HD_aaf_late, HD_omfi, HD_0001, HD_01, HD_junk, HD_short, <<>>}

OneClip == Graph("tracks", ABSENT, 6, PlainMob, PlainMob)

\* paths with and without a known extension, every header, files that cannot
\* be read or opened, a missing file, a missing graph reader
DetectInputs ==
    {[file |-> File(path, readable, header, size, <<Entry(0, M_rel)>>, OneClip, ~readable, FALSE),
      disk |-> IF exists THEN BaseDisk(path) \cup {DirEntry(M_dir_m), FileEntry(M_abs, 96000)}
               ELSE {DirEntry(<<"/">>), DirEntry(CWD)},
      aaf_support |-> support] :
        path \in {P_show_aaf, P_show_omf, P_show_AAF, P_show_Omf, P_show_noext, P_show_bin},
        readable \in BOOLEAN, header \in Headers, size \in {1, 250},
        exists \in BOOLEAN, support \in BOOLEAN}

ReopenInputs ==
    {[file |-> File(P_show_aaf, TRUE, HD_junk, 1, <<>>, OneClip, FALSE, TRUE),
      disk |-> BaseDisk(P_show_aaf) \cup media, aaf_support |-> TRUE] :
        media \in MediaDisks}

\* a source that has both a locator path and essence, next to a source that
\* has neither
BothMob == Mob(ID_a, NM_vo, Descriptor(TY_PCM, ABSENT, PathLocator(M_other), TRUE, FALSE),
               FALSE, NoList)

NeitherMob == Mob(ID_b, NM_A, NoDescriptor, FALSE, NoList)

MixedInputs ==
    {[file |-> File(P_show_aaf, TRUE, HD_junk, 1, <<>>,
                    Graph("tracks", ABSENT, 6, BothMob, NeitherMob), FALSE, FALSE),
      disk |-> BaseDisk(P_show_aaf) \cup media, aaf_support |-> TRUE] :
        media \in MediaDisks}

NM_a_sp_wav == <<"a"," ",".","w","a","v">>

NM_A_WAV == <<"A",".","W","A","V">>

NM_b_wav == <<"b",".","w","a","v">>

\* sources whose names are to be compared with the name of their file a.wav
MatchInputs ==
    {[file |-> File(P_show_aaf, TRUE, HD_junk, 1, <<>>,
                    Graph("seq", ABSENT, 6,
                          Mob(ID_a, name,
                              Descriptor(TY_PCM, ABSENT, PathLocator(M_rel), FALSE, FALSE),
                              FALSE, NoList),
                          PlainMob),
                    FALSE, FALSE),
      disk |-> BaseDisk(P_show_aaf) \cup media, aaf_support |-> TRUE] :
        name \in {NM_a_sp_wav, NM_A_WAV, NM_b_wav}, media \in MediaDisks}

M_dotted == <<"m","/","a",".","b",".","w","a","v">>

NM_a_b_wav == <<"a",".","b",".","w","a","v">>

NM_a_b == <<"a",".","b">>

\* sources named after their file a.b.wav, whose stem has a dot, with the
\* extension and without it
DottedInputs ==
    {[file |-> File(P_show_aaf, TRUE, HD_junk, 1, <<>>,
                    Graph("seq", ABSENT, 6,
                          Mob(ID_a, name,
                              Descriptor(TY_PCM, ABSENT, PathLocator(M_dotted), FALSE, FALSE),
                              FALSE, NoList),
                          PlainMob),
                    FALSE, FALSE),
      disk |-> BaseDisk(P_show_aaf) \cup media, aaf_support |-> TRUE] :
        name \in {NM_a_b_wav, NM_a_b}, media \in MediaDisks}

\* one source that two source clips refer to, the first of them named
DupInputs ==
    {[file |-> File(P_show_aaf, TRUE, HD_junk, 1, <<>>,
                    Graph(shape, NM_vo, 5,
                          Mob(id, NM_A,
                              Descriptor(TY_PCM, ABSENT, PathLocator(M_rel), FALSE, FALSE),
                              FALSE, NoList),
                          PlainMob),
                    FALSE, FALSE),
      disk |-> BaseDisk(P_show_aaf) \cup media, aaf_support |-> TRUE] :
        shape \in {"seq", "tracks"}, id \in {ID_a, ABSENT}, media \in MediaDisks}

\* the content with node k made to raise on the reading of an attribute
Faulty(content, k, attr) == [content EXCEPT !.nodes[k].raises = attr]

\* a source with a file, whose own slot leads to the source clip of node 7
NestingMob == Mob(ID_a, NM_vo, Descriptor(TY_PCM, ABSENT, PathLocator(M_rel), FALSE, FALSE),
                  FALSE, ListOf(<<Slot(7, ABSENT, 0, 0)>>))

\* graphs in which the mob of one source clip cannot be read, and graphs in
\* which the slots of the first source cannot be read
FaultContents ==
    {Faulty(Graph(shape, ABSENT, 6, NestingMob, PlainMob), k, "mob") :
        shape \in {"seq", "tracks"}, k \in {3, 4}}
    \cup {Faulty(Graph(shape, ABSENT, second, Mob(ID_a, NM_vo, desc, FALSE, NoList), PlainMob),
                 5, "slots") :
            shape \in {"seq", "tracks"}, second \in {5, 6},
            desc \in {NoDescriptor,
                      Descriptor(TY_PCM, ABSENT, PathLocator(M_rel), FALSE, FALSE)}}

FaultInputs ==
    {[file |-> File(P_show_aaf, TRUE, HD_junk, 1, <<>>, content, FALSE, FALSE),
      disk |-> BaseDisk(P_show_aaf) \cup media, aaf_support |-> TRUE] :
        content \in FaultContents, media \in MediaDisks}

\* legacy containers that hold, twice, a path that only the aggressive
\* fallback finds
LongInputs ==
    {[file |-> File(P_show_omf, TRUE, HD_omfi, size,
                    <<Entry(0, M_long), Entry(1, M_long)>>, EmptyContent, FALSE, FALSE),
      disk |-> BaseDisk(P_show_omf) \cup media, aaf_support |-> TRUE] :
        size \in {100, 101}, media \in MediaDisks}

\* a source with nothing but a slot that leads to the source clip of node 7
\* and, through it, to a source with nothing but an empty list of slots: the
\* walker includes neither
BareMob == Mob(ID_a, NM_vo, NoDescriptor, FALSE, ListOf(<<Slot(7, ABSENT, 0, 0)>>))

BareContent(shape) ==
    [Graph(shape, ABSENT, 5, BareMob, PlainMob) EXCEPT
        !.nodes[8] = Mob(ID_f, NM_a_wav, NoDescriptor, FALSE, ListOf(<<>>))]

BareInputs ==
    {[file |-> File(P_show_aaf, TRUE, HD_junk, 1, <<>>, BareContent(shape), FALSE, FALSE),
      disk |-> BaseDisk(P_show_aaf) \cup media, aaf_support |-> TRUE] :
        shape \in {"seq", "tracks"}, media \in MediaDisks}

\* a composition with one track whose segment is the first of a chain of
\* nested segment containers, each the only segment of the one before, with a
\* source clip at the end, deep steps below the track's segment
Chain(deep) ==
    [nodes |->
       [n \in 1..(deep + 3) |->
           IF n = 1
           THEN [Obj EXCEPT !.name = NM_comp, !.mob_id = ID_c1,
                            !.slots = ListOf(<<Slot(2, K_Sound, 0, 48000)>>)]
           ELSE IF n < deep + 2 THEN [Obj EXCEPT !.segments = ListOf(<<n + 1>>)]
           ELSE IF n = deep + 2 THEN SourceClip(ABSENT, deep + 3, 0, 48000)
           ELSE Mob(ID_f, NM_a_wav,
                    Descriptor(TY_PCM, ABSENT, PathLocator(M_rel), FALSE, FALSE),
                    FALSE, NoList)],
     toplevel |-> <<1>>,
     mobs |-> <<1, deep + 3>>]

\* the content with node k made one of its own nested segments
Looped(content, k) == [content EXCEPT !.nodes[k].segments = ListOf(<<k>>)]

\* chains that end at the depth cap and one step below it, a source clip that
\* is its own nested segment, a sequence that is its own nested segment
DeepContents ==
    {Chain(MAX_DEPTH), Chain(MAX_DEPTH + 1),
     Looped(Graph("tracks", ABSENT, 6, NestingMob, PlainMob), 3),
     Looped(Graph("seq", ABSENT, 6, NestingMob, PlainMob), 2)}

DeepInputs ==
    {[file |-> File(P_show_aaf, TRUE, HD_junk, 1, <<>>, content, FALSE, FALSE),
      disk |-> BaseDisk(P_show_aaf) \cup media, aaf_support |-> TRUE] :
        content \in DeepContents, media \in MediaDisks}

\* a sequence of two source clips that refer to one source, with the source
\* clip of node 7 as a component of the first of them or of the second
BelowContents ==
    {[Graph("seq", ABSENT, 5, PlainMob, PlainMob) EXCEPT !.nodes[k].components = ListOf(<<7>>)] :
        k \in {3, 4}}

BelowInputs ==
    {[file |-> File(P_show_aaf, TRUE, HD_junk, 1, <<>>, content, FALSE, FALSE),
      disk |-> BaseDisk(P_show_aaf) \cup media, aaf_support |-> TRUE] :
        content \in BelowContents, media \in MediaDisks}

\* a legacy container that holds twelve paths, which fill one track of the
\* timeline and begin a second
ManyInputs ==
    {[file |-> File(P_show_omf, TRUE, HD_omfi, 100,
                    [i \in 1..12 |-> Entry(i - 1, M_long)], EmptyContent, FALSE, FALSE),
      disk |-> BaseDisk(P_show_omf) \cup media, aaf_support |-> TRUE] :
        media \in MediaDisks}

Inputs ==
    GraphInputs \cup LegacyInputs \cup DetectInputs \cup ReopenInputs \cup MixedInputs
    \cup MatchInputs \cup DupInputs \cup FaultInputs \cup LongInputs \cup BareInputs
    \cup DeepInputs \cup ManyInputs \cup DottedInputs \cup BelowInputs

Init ==
    /\ \E input \in Inputs :
          /\ file = input.file
          /\ disk = input.disk
          /\ aaf_support = input.aaf_support
    /\ Fresh
    /\ run = 1
    /\ first = <<>>

Spec == Init /\ [][Next]_vars

NextTwice == Next \/ Rerun

\* two runs of the command, one after the other, on the same input
SpecTwice == Init /\ [][NextTwice]_vars

(***************************************************************************)
(* The properties of the runs.                                             *)
(***************************************************************************)

\* C1: in every report the embedded and the linked clips add up to the total
\* number of clips, and so do the valid and the missing clips, also when a
\* clip is embedded and has a path, or is not embedded and has no path
C1_CountsPartition ==
    report # <<>> =>
        /\ report[1].total_clips = Len(all_clips)
        /\ report[1].embedded_clips + report[1].linked_clips = report[1].total_clips
        /\ report[1].valid_clips + report[1].missing_clips = report[1].total_clips

\* a report on an embedded clip that has a path and a linked clip that has none
C1_Witness ==
    /\ report # <<>>
    /\ report[1].total_clips >= 2
    /\ report[1].missing_clips >= 1
    /\ \E i \in 1..Len(all_clips) :
          all_clips[i].is_embedded /\ Truthy(all_clips[i].external_path)
    /\ \E i \in 1..Len(all_clips) :
          ~all_clips[i].is_embedded /\ ~Truthy(all_clips[i].external_path)

\* the clips the Validate loop has been through
Validated == {i \in 1..Len(all_clips) : i < vi}

\* C2: a clip that is not embedded gets exactly one outcome, the first that
\* applies: no path, the message that no path is specified; a path that does
\* not exist, the not-found message with the path; a path that exists and is
\* no regular file, the not-a-file message with the path; otherwise valid
\* with no message
C2_LinkedOutcome ==
    \A i \in Validated :
        ~all_clips[i].is_embedded =>
            With(all_clips[i], LAMBDA clip :
                IF ~Truthy(clip.external_path)
                THEN ~clip.is_valid /\ clip.error_message = MSG_no_path
                ELSE IF ~PathExists(disk, clip.external_path)
                THEN ~clip.is_valid
                     /\ clip.error_message = MSG_not_found \o clip.external_path
                ELSE IF DiskEntry(disk, Lookup(disk, clip.external_path)).kind # "file"
                THEN ~clip.is_valid
                     /\ clip.error_message = MSG_not_file \o clip.external_path
                ELSE clip.is_valid /\ clip.error_message = NONE)

\* the loop is through a clip whose path is a directory and a clip whose
\* path does not exist
C2_Witness ==
    /\ vi > Len(all_clips)
    /\ \E i \in Validated :
          /\ ~all_clips[i].is_embedded
          /\ Truthy(all_clips[i].external_path)
          /\ all_clips[i].error_message = MSG_not_file \o all_clips[i].external_path
    /\ \E i \in Validated :
          /\ ~all_clips[i].is_embedded
          /\ Truthy(all_clips[i].external_path)
          /\ all_clips[i].error_message = MSG_not_found \o all_clips[i].external_path

\* C3: an embedded clip is reported valid, with no error message and not
\* among the missing clips, whatever its external path is
C3_EmbeddedValid ==
    /\ \A i \in Validated :
          all_clips[i].is_embedded =>
              all_clips[i].is_valid /\ all_clips[i].error_message = NONE
    /\ \A j \in 1..Len(missing_clips) : ~missing_clips[j].is_embedded
    /\ report # <<>> =>
          \A j \in 1..Len(report[1].missing_clip_details) :
              ~report[1].missing_clip_details[j].is_embedded

\* the run has ended with an embedded clip whose external path is not on the
\* disk
C3_Witness ==
    /\ pc = "End"
    /\ stdout # <<>>
    /\ \E i \in 1..Len(all_clips) :
          /\ all_clips[i].is_embedded
          /\ Truthy(all_clips[i].external_path)
          /\ ~PathExists(disk, all_clips[i].external_path)
          /\ all_clips[i].is_valid

\* C4: the exit status is 0 exactly when the run ended without an error and
\* no clip is invalid, and 1 otherwise; a run that ended with an error has
\* printed no report
C4_ExitStatus ==
    pc = "End" =>
        /\ exit_code \in {0, 1}
        /\ exit_code = 0 <=>
              (error = "none" /\ \A i \in 1..Len(all_clips) : all_clips[i].is_valid)
        /\ error # "none" => exit_code = 1 /\ stdout = <<>>
        /\ error = "none" => Len(stdout) = 1

\* a run on a container with no clips has ended with status 0
C4_Witness ==
    /\ pc = "End"
    /\ error = "none"
    /\ Len(all_clips) = 0
    /\ Len(stdout) = 1
    /\ exit_code = 0

\* C5: a path that ends in .aaf or .omf, in any letter case, decides the
\* format and the header is not read, whatever it holds; otherwise at most
\* the first 16 bytes are read, and when they hold no magic number or cannot
\* be read the run fails with UnknownFormat and extracts nothing
C5_DetectByExtension ==
    file_type # "none" =>
        /\ EndsWith(Lower(file.path), EXT_aaf) => file_type = "aaf" /\ io.header = 0
        /\ EndsWith(Lower(file.path), EXT_omf) => file_type = "omf" /\ io.header = 0
        /\ io.header <= HEADER_PEEK
        /\ (/\ ~EndsWith(Lower(file.path), EXT_aaf)
            /\ ~EndsWith(Lower(file.path), EXT_omf)
            /\ (~file.readable
                \/ (~HeaderIsAAF(Take(file.header, io.header))
                    /\ ~HeaderIsOMF(Take(file.header, io.header)))))
           => /\ file_type = "unknown"
              /\ error = "UnknownFormat"
              /\ all_clips = <<>>
              /\ io.scan = 0 /\ io.aggr = 0
              /\ report = <<>>

\* a path that ends in .aaf, in upper or lower case, whose header is that of
\* the legacy format has been taken for the graph format
C5_Witness ==
    /\ EndsWith(Lower(file.path), EXT_aaf)
    /\ HeaderIsOMF(file.header)
    /\ file.readable
    /\ file_type = "aaf"
    /\ io.header = 0
    /\ pc = "End"

\* the run is past the extraction from a legacy container
LegacyExtracted == file_type = "omf" /\ pc \notin {"Start", "DetectFormat", "Extract"}

\* C6 as it is stated: a legacy container of more than 200 MB fails with
\* FileTooLarge before any byte of it has been read; of a container of more
\* than 100 MB and at most 200 MB both scans read at most the first 50 MB;
\* a container of at most 100 MB is read whole
C6_NoByteRead ==
    LegacyExtracted =>
        /\ file.size > MAX_OMF_SIZE =>
              /\ error = "FileTooLarge"
              /\ all_clips = <<>>
              /\ io.header = 0 /\ io.scan = 0 /\ io.aggr = 0
        /\ (file.size > MAX_FILE_SIZE /\ file.size <= MAX_OMF_SIZE /\ file.readable) =>
              io.scan <= READ_WINDOW /\ io.aggr <= READ_WINDOW
        /\ (file.size <= MAX_FILE_SIZE /\ file.readable) => io.scan = file.size

\* C6, amended: a legacy container of more than 200 MB fails with
\* FileTooLarge, with no clips and no report, before either scan has read a
\* byte of it; all that has been read of it is the header of at most 16
\* bytes that the detection reads when the path has no known extension; of a
\* container of more than 100 MB and at most 200 MB both scans read at most
\* the first 50 MB; a container of at most 100 MB is read whole
C6_SizeCaps ==
    LegacyExtracted =>
        /\ file.size > MAX_OMF_SIZE =>
              /\ error = "FileTooLarge"
              /\ all_clips = <<>>
              /\ report = <<>> /\ stdout = <<>>
              /\ pc = "End" => exit_code = 1
              /\ io.scan = 0 /\ io.aggr = 0
              /\ io.header <= HEADER_PEEK
              /\ io.header > 0 => ~EndsWith(Lower(file.path), EXT_omf)
        /\ (file.size > MAX_FILE_SIZE /\ file.size <= MAX_OMF_SIZE /\ file.readable) =>
              /\ io.scan = READ_WINDOW
              /\ io.aggr \in {0, READ_WINDOW}
        /\ (file.size <= MAX_FILE_SIZE /\ file.readable) =>
              /\ io.scan = file.size
              /\ io.aggr \in {0, file.size}

\* a run on a legacy container of more than 200 MB that the detection knew
\* by its header has ended with FileTooLarge
C6_Witness ==
    /\ pc = "End"
    /\ file_type = "omf"
    /\ file.size > MAX_OMF_SIZE
    /\ error = "FileTooLarge"
    /\ io.header > 0
    /\ io.scan = 0

\* C7: a second run on the same container and the same filesystem prints the
\* report the first run printed, clip_id of every clip included, and ends
\* with the same status
C7_SameReport ==
    (run = 2 /\ pc = "End") =>
        /\ stdout = first[1].stdout
        /\ exit_code = first[1].exit_code
        /\ error = first[1].error

\* the path a locator path resolves to from the container's directory
ResolvedLocator(path) ==
    NormPath(IF IsAbs(path) THEN path ELSE Join(Dirname(file.path), path))

\* C8: the clip of a source of a graph container whose locator gives a path
\* has that path, joined to the container's directory when it is relative,
\* and normalized, as its external path; when no file is at that path the
\* clip is invalid with the not-found message for that path
C8_LocatorPathChecked ==
    (file_type = "aaf" /\ pc \in {"ReconstructTimeline", "BuildReport", "Output", "End"}) =>
        \A i \in 1..Len(all_clips) : \A n \in 1..Len(file.content.nodes) :
            With(file.content.nodes[n], LAMBDA mob :
                (/\ HasAttr(mob.mob_id)
                 /\ mob.mob_id = all_clips[i].clip_id
                 /\ mob.descriptor.has
                 /\ mob.descriptor.locator.kind = "obj"
                 /\ Truthy(mob.descriptor.locator.path)) =>
                    /\ all_clips[i].external_path
                          = ResolvedLocator(mob.descriptor.locator.path)
                    /\ ~PathExists(disk, ResolvedLocator(mob.descriptor.locator.path)) =>
                          /\ ~all_clips[i].is_valid
                          /\ all_clips[i].error_message
                                = MSG_not_found \o ResolvedLocator(mob.descriptor.locator.path))

\* the clips a report holds
ReportClips(rep) ==
    {rep.missing_clip_details[j] : j \in 1..Len(rep.missing_clip_details)}
    \cup {rep.timeline_clips[j] : j \in 1..Len(rep.timeline_clips)}

\* C9: the external path of every clip in a report, when the clip has one, is
\* absolute and normalized, whichever scan or walk the clip comes from
C9_AbsoluteNormalized ==
    report # <<>> =>
        \A clip \in ReportClips(report[1]) :
            Truthy(clip.external_path) =>
                /\ IsAbs(clip.external_path)
                /\ NormPath(clip.external_path) = clip.external_path

\* C10: every clip in a report, among the missing clips or on the timeline,
\* has a name that is not empty
C10_NamesNonEmpty ==
    report # <<>> =>
        \A clip \in ReportClips(report[1]) :
            /\ clip.name # NONE
            /\ clip.name # ABSENT
            /\ Len(clip.name) > 0

\* a report with missing clips and timeline clips on a graph container whose
\* first source clip and its source have names of blanks only
C10_Witness ==
    /\ report # <<>>
    /\ file_type = "aaf"
    /\ Len(report[1].missing_clip_details) >= 1
    /\ Len(report[1].timeline_clips) >= 1
    /\ file.content.nodes[3].name = NM_blank
    /\ file.content.nodes[5].name = NM_blank
    /\ \E j \in 1..Len(report[1].missing_clip_details) :
          report[1].missing_clip_details[j].clip_id = SourceId(file.content.nodes, 1, 5)

\* the timeline clips of the report that have an external path
TimelineWithPath ==
    IF report = <<>> THEN {}
    ELSE {j \in 1..Len(report[1].timeline_clips) :
            Truthy(report[1].timeline_clips[j].external_path)}

\* C11 as it is stated: a timeline clip with an external path has
\* name_matches_file true exactly when its name without extension, in lower
\* case, is the file's base name without extension, in lower case, and its
\* expected_filename is the file's base name
C11_MatchByLoweredRoot ==
    \A j \in TimelineWithPath :
        With(report[1].timeline_clips[j], LAMBDA clip :
            /\ clip.expected_filename = Basename(clip.external_path)
            /\ clip.name_matches_file \in {"True", "False"}
            /\ clip.name_matches_file = "True" <=>
                  Lower(SplitExt(clip.name)[1])
                    = Lower(SplitExt(Basename(clip.external_path))[1]))

\* C11, amended: the two names are compared without extension, in lower case
\* and without the whitespace around them
C11_MatchByStrippedRoot ==
    \A j \in TimelineWithPath :
        With(report[1].timeline_clips[j], LAMBDA clip :
            /\ clip.expected_filename = Basename(clip.external_path)
            /\ clip.name_matches_file \in {"True", "False"}
            /\ clip.name_matches_file = "True" <=>
                  Strip(Lower(SplitExt(clip.name)[1]))
                    = Strip(Lower(SplitExt(Basename(clip.external_path))[1])))

\* a report with a timeline clip named in upper case after its file that
\* matches, and a timeline clip that does not match
C11_Witness ==
    /\ \E j \in TimelineWithPath :
          /\ report[1].timeline_clips[j].name_matches_file = "True"
          /\ report[1].timeline_clips[j].name
                # SplitExt(report[1].timeline_clips[j].expected_filename)[1]
    /\ \E j \in TimelineWithPath :
          report[1].timeline_clips[j].name_matches_file = "False"

\* the timeline clips of a report
TimelineOf(rep) == {rep.timeline_clips[j] : j \in 1..Len(rep.timeline_clips)}

\* C12: a timeline clip that has no external path, or that is embedded, has
\* name_matches_file None and expected_filename None; name_matches_file is a
\* boolean only on clips that are not embedded and have an external path
C12_NoMatchWithoutPath ==
    report # <<>> =>
        \A clip \in TimelineOf(report[1]) :
            /\ (~Truthy(clip.external_path) \/ clip.is_embedded) =>
                  clip.name_matches_file = "None" /\ clip.expected_filename = NONE
            /\ clip.name_matches_file \in {"True", "False"} =>
                  ~clip.is_embedded /\ Truthy(clip.external_path)

\* the clips the Validate loop has not reached are valid and have no message,
\* and the missing clips of a report are extracted clips with no place on
\* the timeline
UntouchedClips ==
    /\ \A i \in 1..Len(all_clips) :
          i >= vi => all_clips[i].is_valid /\ all_clips[i].error_message = NONE
    /\ report # <<>> =>
          \A j \in 1..Len(report[1].missing_clip_details) :
              /\ \E i \in 1..Len(all_clips) : all_clips[i] = report[1].missing_clip_details[j]
              /\ report[1].missing_clip_details[j].track_index = 0
              /\ report[1].missing_clip_details[j].timeline_start = 0
              /\ report[1].missing_clip_details[j].timeline_end = 0

\* a step changes of an extracted clip at most is_valid and error_message,
\* and only of the clip the Validate loop is at, which it then leaves
ClipsFrame ==
    \A i \in 1..Len(all_clips) :
        /\ Len(all_clips') = Len(all_clips)
        /\ [all_clips'[i] EXCEPT !.is_valid = all_clips[i].is_valid,
                                 !.error_message = all_clips[i].error_message]
              = all_clips[i]
        /\ all_clips'[i] # all_clips[i] =>
              /\ pc = "Validate" /\ pc' = "Validate"
              /\ i = vi /\ vi' = vi + 1
              /\ all_clips[i].is_valid /\ all_clips[i].error_message = NONE

\* C13: extracted clips are changed only in the Validate phase, at most once
\* each and only in is_valid and error_message: before it they are valid
\* with no message, after it no field of them changes, and the clips among a
\* report's missing clips have track_index 0 and timeline_start =
\* timeline_end = 0
C13_MutatedOnceInValidate == []UntouchedClips /\ [][ClipsFrame]_vars

\* a report whose timeline clips have a place on the timeline next to a
\* missing clip that has none
C13_Witness ==
    /\ pc = "End"
    /\ report # <<>>
    /\ Len(all_clips) >= 2
    /\ Len(report[1].missing_clip_details) >= 1
    /\ \E i \in 1..Len(all_clips) : all_clips[i].is_valid
    /\ \E j \in 1..Len(report[1].timeline_clips) :
          /\ report[1].timeline_clips[j].timeline_end > 0
          /\ report[1].timeline_clips[j].clip_id = report[1].missing_clip_details[1].clip_id

\* the place of a phase in the order of the run; the printing of the report
\* is the step from BuildReport to End
PhaseRank(phase) ==
    CASE phase = "Start" -> 1
      [] phase = "DetectFormat" -> 2
      [] phase = "Extract" -> 3
      [] phase = "Validate" -> 4
      [] phase = "ReconstructTimeline" -> 5
      [] phase = "BuildReport" -> 6
      [] phase = "Output" -> 7
      [] phase = "End" -> 8
      [] OTHER -> 0

\* a step that changes the phase enters the next phase of the order, or fails
\* out of Start, DetectFormat or Extract, or ends a run that has failed; the
\* timeline is reconstructed only when every clip is validated
PhaseStep ==
    pc' # pc =>
        /\ \/ PhaseRank(pc) > 0 /\ PhaseRank(pc') = PhaseRank(pc) + 1
           \/ pc \in {"Start", "DetectFormat", "Extract"} /\ pc' = "Raised"
           \/ pc = "Raised" /\ pc' = "End"
        /\ pc' = "ReconstructTimeline" => vi > Len(all_clips)

\* a run that has failed has validated nothing, reconstructed nothing and
\* built no report; a run that has ended without failing has built its report
PhaseEffects ==
    /\ error # "none" =>
          /\ pc \in {"Raised", "End"}
          /\ vi = 1 /\ missing_clips = <<>> /\ counts = NoCounts
          /\ timeline = << <<>>, 0 >> /\ report = <<>>
    /\ pc = "Raised" => error # "none"
    /\ (pc = "End" /\ error = "none") => report # <<>> /\ vi > Len(all_clips)

\* C14: a run goes through Start, DetectFormat, Extract, Validate,
\* ReconstructTimeline, BuildReport and End in this order, entering no phase
\* twice and skipping none; every clip is validated before the timeline is
\* reconstructed; a failure in Start, DetectFormat or Extract ends the run
\* with no later phase entered
C14_LinearPhases == [][PhaseStep]_vars /\ []PhaseEffects

\* a run on a container with two clips or more has ended without failing
C14_Witness ==
    /\ pc = "End"
    /\ error = "none"
    /\ exit_code = 1
    /\ Len(all_clips) >= 2
    /\ Len(missing_clips) >= 1
    /\ Len(missing_clips) < Len(all_clips)

\* the graph extractor has returned its clips
GraphExtracted ==
    /\ file_type = "aaf"
    /\ pc \notin {"Start", "DetectFormat", "Extract", "Raised"}
    /\ error = "none"

\* the clips extracted from the source that node m is, under any identity the
\* run may have given it
ClipsOfSource(m) ==
    {i \in 1..Len(all_clips) :
        \E heap \in Heaps : all_clips[i].clip_id = SourceId(file.content.nodes, heap, m)}

\* C15: the clips the graph extractor returns have pairwise different
\* clip_ids; a source that two source clips refer to gives one clip at most,
\* and it has the name its first visit gives it
C15_OneClipPerSource ==
    GraphExtracted =>
        /\ \A i, j \in 1..Len(all_clips) :
              all_clips[i].clip_id = all_clips[j].clip_id => i = j
        /\ (Len(file.content.nodes) >= 5 /\ file.content.nodes[4].mob = 5) =>
              /\ Cardinality(ClipsOfSource(5)) <= 1
              /\ \A i \in ClipsOfSource(5) :
                    all_clips[i].name
                      = WalkerClipName(file.content.nodes, file.content.nodes[3],
                                       file.content.nodes[5], 0)

\* two source clips refer to one source, the first under a name of its own,
\* and the extractor has returned one clip for it, under that name
C15_Witness ==
    /\ GraphExtracted
    /\ file.content.nodes[3].mob = 5
    /\ file.content.nodes[4].mob = 5
    /\ file.content.nodes[3].name = NM_vo
    /\ Cardinality(ClipsOfSource(5)) = 1
    /\ \A i \in ClipsOfSource(5) : all_clips[i].name = NM_vo

\* the graph timeline pass has reopened the container and walked it
TimelineWalked ==
    /\ file_type = "aaf"
    /\ pc \in {"BuildReport", "Output", "End"}
    /\ error = "none"
    /\ aaf_support
    /\ ~file.reopen_fails

\* the source clips that are reached from segment n through components and
\* segments, no deeper than the depth cap, one entry for each way a source
\* clip is reached; a node whose mob cannot be read is no source clip and
\* leads nowhere
RECURSIVE ReachedRefs(_, _, _), ReachedBelow(_, _, _)
ReachedRefs(g, n, depth) ==
    IF depth > MAX_DEPTH \/ RaisesOn(g[n], "mob") THEN <<>>
    ELSE (IF g[n].mob > 0 THEN <<n>> ELSE <<>>)
         \o ReachedBelow(g, g[n].components.list \o g[n].segments.list, depth + 1)

\* the same for each of the children of a segment, one after the other
ReachedBelow(g, children, depth) ==
    IF Len(children) = 0 THEN <<>>
    ELSE ReachedRefs(g, children[1], depth) \o ReachedBelow(g, Tail(children), depth)

\* the track index of the i-th slot of a composition: the number of slots
\* with a segment before it
TrackOf(slots, i) == Cardinality({j \in 1..(i - 1) : slots[j].segment > 0})

\* the sources of a graph: the nodes that a source clip refers to
SourcesOf(g) == {g[k].mob : k \in {n \in 1..Len(g) : g[n].mob > 0}}

\* the timeline clips on a track that carry an id
OnTrack(tl, track_index, source_id) ==
    {j \in 1..Len(tl) : tl[j].track_index = track_index /\ tl[j].clip_id = source_id}

\* C16: the graph timeline pass does not deduplicate: for every track of a
\* top-level composition and every source, the timeline has as many clips
\* with the source's id and the track's index as there are source clips that
\* refer to the source and are reached from the track's segment; a source is
\* what has one source id
C16_OneClipPerReference ==
    TimelineWalked =>
        \E heap \in Heaps :
            \A c \in 1..Len(file.content.toplevel) :
                With(file.content.nodes, LAMBDA g :
                With(g[file.content.toplevel[c]].slots.list, LAMBDA slots :
                    \A i \in 1..Len(slots) : \A m \in SourcesOf(g) :
                        slots[i].segment > 0 =>
                            Cardinality(OnTrack(timeline[1], TrackOf(slots, i),
                                                SourceId(g, heap, m)))
                              = Len(SelectSeq(ReachedRefs(g, slots[i].segment, 0),
                                              LAMBDA k : SourceId(g, heap, g[k].mob)
                                                           = SourceId(g, heap, m)))))

\* one source is referred to twice, on one track or on two: the timeline has
\* two clips with its id, and the extractor returned one
C16_Witness ==
    /\ TimelineWalked
    /\ file.content.nodes[3].mob = 5
    /\ file.content.nodes[4].mob = 5
    /\ Cardinality(ClipsOfSource(5)) = 1
    /\ Len(timeline[1]) = 2
    /\ timeline[1][1].clip_id = timeline[1][2].clip_id
    /\ timeline[1][2].track_index = 1

\* the extracted clips that have the id of the j-th timeline clip
MatchesOf(j) == {i \in 1..Len(all_clips) : all_clips[i].clip_id = timeline[1][j].clip_id}

\* C17: a graph timeline clip whose id is the clip_id of an extracted clip
\* has that clip's external_path, is_embedded and is_valid as validation left
\* them; a timeline clip whose id no extracted clip has is not embedded, has
\* no external path and is valid
C17_InheritsFromMatch ==
    TimelineWalked =>
        \A j \in 1..Len(timeline[1]) :
            With(timeline[1][j], LAMBDA tclip :
                /\ \A i \in MatchesOf(j) :
                      /\ vi > Len(all_clips)
                      /\ tclip.external_path = all_clips[i].external_path
                      /\ tclip.is_embedded = all_clips[i].is_embedded
                      /\ tclip.is_valid = all_clips[i].is_valid
                /\ MatchesOf(j) = {} =>
                      /\ tclip.is_embedded = FALSE
                      /\ tclip.external_path = NONE
                      /\ tclip.is_valid = TRUE)

\* a timeline with the clip of a source whose file validation did not find,
\* and with a clip of a source that the extractor returned no clip for
C17_Witness ==
    /\ TimelineWalked
    /\ \E j \in 1..Len(timeline[1]) : \E i \in MatchesOf(j) :
          /\ ~all_clips[i].is_valid
          /\ ~timeline[1][j].is_valid
          /\ Truthy(timeline[1][j].external_path)
    /\ \E j \in 1..Len(timeline[1]) : MatchesOf(j) = {}

\* the processing of node n by the graph walker raises an exception before
\* the node has given a clip: at line 285, or at line 417
NodeRaises(g, n) ==
    \/ RaisesOn(g[n], "mob")
    \/ g[n].mob > 0 /\ WalkerRaises(g, g[g[n].mob])

\* the graph with every node whose processing raises replaced by a node that
\* has nothing: no mob, no slots, no components
WithoutRaising(g) == [n \in 1..Len(g) |-> IF NodeRaises(g, n) THEN Obj ELSE g[n]]

\* the clips of the pre-pass and of the traversal of the compositions, which
\* are the walks of the graph walker (lines 166-186)
WalkerClips(g, heap, content) ==
    With([g |-> g, heap |-> heap, fpath |-> file.path], LAMBDA ctx :
        Compositions(ctx, content.toplevel,
                     PrePass(ctx, content.mobs, [clips |-> <<>>, processed |-> {}])).clips)

\* C18: an exception raised while the graph walker processes a node does not
\* leave the extractor, and the walker's clips are those of the graph in
\* which the node has nothing: the clips collected before it are kept, and
\* the nodes after it are visited and give their clips
C18_ExceptionCostsOneNode ==
    /\ (file_type = "aaf" /\ error # "none") => (~aaf_support \/ file.open_fails)
    /\ (file_type = "aaf" /\ pc = "Validate" /\ vi = 1) =>
          \E heap \in Heaps :
              With(WalkerClips(WithoutRaising(file.content.nodes), heap, file.content),
                   LAMBDA clips :
                      /\ WalkerClips(file.content.nodes, heap, file.content) = clips
                      /\ Len(clips) > 0 => all_clips = clips)

\* the walker has met a source clip that raises, after the clip of one source
\* and before the clip of another
C18_Witness ==
    /\ GraphExtracted
    /\ RaisesOn(file.content.nodes[4], "mob")
    /\ Len(all_clips) = 2
    /\ all_clips[1].clip_id = ID_a
    /\ all_clips[2].clip_id = ID_f

\* the registry mobs that the registry fallback takes for media: named or
\* identified, with a slot whose segment refers to a mob (lines 200-226)
RegistryMedia(g, content) ==
    {m \in {content.mobs[i] : i \in 1..Len(content.mobs)} :
        /\ HasAttr(g[m].name) \/ HasAttr(g[m].mob_id)
        /\ ~RaisesOn(g[m], "slots")
        /\ g[m].slots.has
        /\ FallbackProbe(g, g[m].slots.list)[1]}

\* C19: when the pre-pass and the traversal of the compositions have given a
\* clip, the extractor returns their clips, in their order, and nothing of the
\* registry fallback; only when they have given none are the clips those of
\* registry mobs
C19_FallbackOnlyWhenEmpty ==
    (file_type = "aaf" /\ pc = "Validate" /\ vi = 1) =>
        \E heap \in Heaps :
            With(WalkerClips(file.content.nodes, heap, file.content), LAMBDA clips :
                /\ Len(clips) > 0 => all_clips = clips
                /\ Len(clips) = 0 =>
                      \A i \in 1..Len(all_clips) :
                          \E m \in RegistryMedia(file.content.nodes, file.content) :
                              /\ all_clips[i].clip_id = SourceId(file.content.nodes, heap, m)
                              /\ all_clips[i].is_embedded
                                    = (all_clips[i].external_path = NONE))

\* the walker has given clips, and the registry holds a composition that the
\* fallback would have taken for media: it has given no clip
C19_Witness ==
    /\ GraphExtracted
    /\ Len(all_clips) >= 1
    /\ 1 \in RegistryMedia(file.content.nodes, file.content)
    /\ \A i \in 1..Len(all_clips) : all_clips[i].clip_id # ID_c1

\* the clips of the structured extraction of the legacy parser: the paths of
\* the three strategies, filtered by extension (lines 507-543)
StructuredClips ==
    PathClips(extract_omf_file_paths(disk, Dirname(AbsPath(file.path)),
                                     Visible(file.entries, DataLen(file.size))),
              <<>>, {})

\* C20: the legacy parser's aggressive fallback reads the file exactly when
\* the structured extraction has given no clip; its clips are then the
\* result, none embedded, with the ids omf_ref_1, omf_ref_2, ... in their
\* order; otherwise the result is that of the structured extraction; when
\* neither finds a clip the report has total_clips = 0
C20_AggressiveOnlyWhenEmpty ==
    (LegacyExtracted /\ error = "none") =>
        /\ io.aggr > 0 <=> Len(StructuredClips) = 0
        /\ Len(StructuredClips) > 0 =>
              /\ Len(all_clips) = Len(StructuredClips)
              /\ \A i \in 1..Len(all_clips) :
                    all_clips[i].clip_id = StructuredClips[i].clip_id
        /\ Len(StructuredClips) = 0 =>
              /\ \A i \in 1..Len(all_clips) :
                    /\ all_clips[i].clip_id = T_omf_ref_ \o Str(i)
                    /\ ~all_clips[i].is_embedded
              /\ (report # <<>> /\ all_clips = <<>>) => report[1].total_clips = 0

\* the structured extraction has found nothing in a legacy container and the
\* aggressive fallback has found two clips
C20_Witness ==
    /\ LegacyExtracted
    /\ pc = "End"
    /\ Len(StructuredClips) = 0
    /\ io.aggr > 0
    /\ Len(all_clips) = 2
    /\ all_clips[2].clip_id = T_omf_ref_ \o Str(2)

\* the extractor has just returned the clips of a graph whose first source
\* clip, node 3, refers to the source of node 5
FirstVisitOfFive ==
    /\ file_type = "aaf" /\ pc = "Validate" /\ vi = 1
    /\ Len(file.content.nodes) >= 5
    /\ file.content.nodes[3].mob = 5
    /\ ~RaisesOn(file.content.nodes[3], "mob")

\* the four conditions of the claim on the source of node m
MeetsOneOfFour(g, m) ==
    \/ WalkerIsAudio(g[m])
    \/ Truthy(WalkerResolve(file.path, WalkerClassify(g, g[m])[2]))
    \/ WalkerClassify(g, g[m])[1]
    \/ ~RaisesOn(g[m], "slots") /\ ~g[m].slots.has

\* C21: the source that the walker visits first has a clip among the
\* extracted clips if and only if it is audio, or has an external path, or is
\* embedded, or has no slots attribute; a source that is none of the four is
\* marked processed and has no clip, not from a later reference and not from
\* the registry fallback either
C21_InclusionRule ==
    FirstVisitOfFive =>
        \E heap \in Heaps :
            (\E i \in 1..Len(all_clips) :
                all_clips[i].clip_id = SourceId(file.content.nodes, heap, 5))
              <=> MeetsOneOfFour(file.content.nodes, 5)

\* a source that is none of the four has no clip although the registry
\* fallback has run and would take it for media: the fallback has returned
\* the composition only
C21_Witness ==
    /\ FirstVisitOfFive
    /\ ~MeetsOneOfFour(file.content.nodes, 5)
    /\ 5 \in RegistryMedia(file.content.nodes, file.content)
    /\ Len(all_clips) = 1
    /\ all_clips[1].clip_id = ID_c1

\* the descriptor's locator of the source gives a path (lines 348-364)
LocatorGivesPath(source_mob) ==
    source_mob.descriptor.has /\ Truthy(LocatorPath(source_mob.descriptor.locator))

\* C22: the clip of the source that the walker visits first is external, with
\* a path and not embedded, when the descriptor's locator gives a path, and it
\* is embedded exactly when the locator gives no path and the descriptor has
\* an essence or essence_data attribute
C22_EssenceOnlyWithoutPath ==
    FirstVisitOfFive =>
        \A i \in ClipsOfSource(5) :
            With(file.content.nodes[5], LAMBDA source_mob :
                /\ LocatorGivesPath(source_mob) =>
                      /\ Truthy(all_clips[i].external_path)
                      /\ ~all_clips[i].is_embedded
                /\ all_clips[i].is_embedded <=>
                      /\ ~LocatorGivesPath(source_mob)
                      /\ source_mob.descriptor.has
                      /\ source_mob.descriptor.essence
                           \/ source_mob.descriptor.essence_data)

\* C23: the clip of the source that the walker visits first has the first of
\* the segment's name, the source's name and the descriptor's name that is
\* set and, stripped, is none of 'sourceclip', 'unnamed' and '' in any case,
\* and the generated name Clip_1 when there is none: a generic name of the
\* segment gives way to a real name of the source
C23_GenericRejectedAtEachStep ==
    FirstVisitOfFive =>
        \A i \in ClipsOfSource(5) :
            With(FirstTruthy(<<NonGeneric(file.content.nodes[3].name),
                               NonGeneric(file.content.nodes[5].name),
                               IF file.content.nodes[5].descriptor.has
                               THEN NonGeneric(file.content.nodes[5].descriptor.name)
                               ELSE NONE>>),
                 LAMBDA real_name :
                    all_clips[i].name
                      = (IF Truthy(real_name) THEN real_name ELSE T_Clip_ \o Str(1)))

\* the timeline pass has walked a composition whose first track holds the
\* sequence of node 2, whose components are the source clips of nodes 3 and 4
SequenceWalked ==
    /\ TimelineWalked
    /\ Len(file.content.nodes) >= 4
    /\ file.content.nodes[1].slots.list[1].segment = 2
    /\ file.content.nodes[2].components.list = <<3, 4>>
    /\ ~file.content.nodes[2].segments.has
    /\ \A n \in {3, 4} : file.content.nodes[n].mob > 0
                            /\ ~RaisesOn(file.content.nodes[n], "mob")
                            /\ file.content.nodes[n].start = 0

\* C24: the two source clips of a sequence on a track that starts at T are
\* placed one after the other: the first has timeline_start T, the second has
\* timeline_start T plus the length of the first, converted by the edit rate
C24_CursorAdvances ==
    SequenceWalked =>
        With(ToMs(file.content.nodes[1].slots.list[1].start, DEFAULT_EDIT_RATE), LAMBDA T :
            /\ Len(timeline[1]) = 2
            /\ timeline[1][1].timeline_start = T
            /\ timeline[1][2].timeline_start
                 = T + ToMs(file.content.nodes[3].length, DEFAULT_EDIT_RATE))

\* the source clips reached from the segments of the tracks, track after track
RECURSIVE ReachedFromTracks(_, _)
ReachedFromTracks(g, slots) ==
    IF Len(slots) = 0 THEN <<>>
    ELSE (IF slots[1].segment > 0 THEN ReachedRefs(g, slots[1].segment, 0) ELSE <<>>)
         \o ReachedFromTracks(g, Tail(slots))

\* C25: the graph timeline walker goes no deeper than 20 steps below the
\* segment of a track and comes to an end on every graph, also on one whose
\* nested segments lead back to themselves: the timeline has one clip for
\* each way in which a source clip is reached in at most 20 steps, and none
\* for a source clip that lies deeper
C25_DepthCap ==
    (TimelineWalked /\ Len(file.content.toplevel) = 1) =>
        Len(timeline[1])
          = Len(ReachedFromTracks(file.content.nodes,
                                  file.content.nodes[file.content.toplevel[1]].slots.list))

\* the timeline of a graph whose first source clip is its own nested segment:
\* the run has ended, and the source clip has given a clip at each depth from
\* 0 to the cap
C25_Witness ==
    /\ TimelineWalked
    /\ pc = "End"
    /\ file.content.nodes[3].segments.list = <<3>>
    /\ Cardinality(OnTrack(timeline[1], 0, ID_a)) = MAX_DEPTH + 1
    /\ Cardinality(OnTrack(timeline[1], 1, ID_b)) = 1

\* the legacy timeline pass has returned
LegacyTimelineBuilt ==
    /\ file_type = "omf"
    /\ pc \in {"BuildReport", "Output", "End"}
    /\ error = "none"

\* C26: the legacy timeline has one clip for each extracted clip, in their
\* order; the i-th clip, counted from 0, is on track i div 10; the first clip
\* of a track starts at 0 and every other clip where the clip before it ends;
\* every clip lasts one second or more; total_duration is the greatest
\* timeline_end
C26_LegacyTimeline ==
    LegacyTimelineBuilt =>
        /\ Len(timeline[1]) = Len(all_clips)
        /\ \A j \in 1..Len(timeline[1]) :
              With(timeline[1][j], LAMBDA tclip :
                  /\ tclip.clip_id = all_clips[j].clip_id
                  /\ tclip.name = all_clips[j].name
                  /\ tclip.track_index = (j - 1) \div CLIPS_PER_TRACK
                  /\ tclip.timeline_start
                       = (IF (j - 1) % CLIPS_PER_TRACK = 0 THEN 0
                          ELSE timeline[1][j - 1].timeline_end)
                  /\ tclip.timeline_end - tclip.timeline_start >= 1000
                  /\ tclip.timeline_end <= timeline[2])
        /\ \/ timeline[1] = <<>> /\ timeline[2] = 0
           \/ \E j \in 1..Len(timeline[1]) : timeline[1][j].timeline_end = timeline[2]

\* a legacy timeline of twelve clips: ten on the first track, the eleventh at
\* the start of the second track, the twelfth after it
C26_Witness ==
    /\ LegacyTimelineBuilt
    /\ Len(timeline[1]) = 12
    /\ timeline[1][10].track_index = 0
    /\ timeline[1][11].track_index = 1
    /\ timeline[1][11].timeline_start = 0
    /\ timeline[1][12].timeline_start = timeline[1][11].timeline_end
    /\ timeline[2] = timeline[1][10].timeline_end

(***************************************************************************)
(* C27: the invalid clips and the list of missing clips.                   *)
(***************************************************************************)

\* the Validate loop has ended
LoopEnded == pc \in {"ReconstructTimeline", "BuildReport", "Output"}

Invalid(clip) == ~clip.is_valid

\* C27: after validation a clip is invalid exactly when it carries an error
\* message, and missing_clip_details is the list of the invalid clips, each
\* once and in the order of all_clips; the report carries that list.
C27_InvalidIffMissing ==
    /\ LoopEnded =>
          /\ \A i \in 1..Len(all_clips) :
                (~all_clips[i].is_valid) <=> (all_clips[i].error_message # NONE)
          /\ missing_clips = SelectSeq(all_clips, Invalid)
    /\ (pc = "Output" /\ report # <<>>) =>
          report[1].missing_clip_details = SelectSeq(all_clips, Invalid)

\* a validated run with a valid clip and two invalid clips that differ, so
\* that their order shows
C27_Witness ==
    /\ pc = "Output"
    /\ Len(report[1].missing_clip_details) >= 2
    /\ report[1].missing_clip_details[1] # report[1].missing_clip_details[2]
    /\ \E j \in 1..Len(all_clips) : all_clips[j].is_valid

(***************************************************************************)
(* C28: a failure of the graph timeline pass.                              *)
(***************************************************************************)

\* the nodes that the timeline walker visits from segment n
RECURSIVE TimelineVisited(_, _, _)
TimelineVisited(g, n, depth) ==
    IF depth > MAX_DEPTH THEN {}
    ELSE {n} \cup
         (IF RaisesOn(g[n], "mob") THEN {}
          ELSE UNION {TimelineVisited(g, (g[n].components.list \o g[n].segments.list)[i],
                                      depth + 1) :
                        i \in 1..Len(g[n].components.list \o g[n].segments.list)})

\* the graph reader raises while the timeline pass walks the file: on the
\* slots of a top-level composition, or on the mob of a segment it visits
WalkRaises(content) ==
    \E c \in 1..Len(content.toplevel) :
        With(content.nodes[content.toplevel[c]], LAMBDA composition :
            \/ RaisesOn(composition, "slots")
            \/ \E i \in 1..Len(composition.slots.list) :
                  /\ composition.slots.list[i].segment > 0
                  /\ \E n \in TimelineVisited(content.nodes,
                                              composition.slots.list[i].segment, 0) :
                        RaisesOn(content.nodes[n], "mob"))

\* the report carries what Validate computed
ReportKeepsValidation ==
    /\ report # <<>>
    /\ error = "none"
    /\ report[1].total_clips = Len(all_clips)
    /\ report[1].embedded_clips = embedded_count(all_clips)
    /\ report[1].linked_clips = linked_count(all_clips)
    /\ report[1].valid_clips = valid_count(all_clips)
    /\ report[1].missing_clips = Len(missing_clips)
    /\ report[1].missing_clip_details = missing_clips

\* C28 as the spec has it: when the graph reader is unavailable, or raises
\* while the timeline pass reopens or walks the file, the report is returned
\* with the result of Validate, with no timeline clips and a duration of 0.
C28_FailureEmptiesTimeline ==
    (pc = "Output" /\ file_type = "aaf"
       /\ (~aaf_support \/ file.reopen_fails \/ WalkRaises(file.content))) =>
        /\ ReportKeepsValidation
        /\ report[1].timeline_clips = <<>>
        /\ report[1].total_duration = 0

\* the timeline pass of a graph container leaves the result of Validate as
\* it is and hands over to the building of the report
TimelinePassKeepsResult ==
    (pc = "ReconstructTimeline" /\ file_type = "aaf") =>
        /\ pc' = "BuildReport"
        /\ error' = error
        /\ UNCHANGED <<all_clips, missing_clips, counts>>

\* C28, amended: a failure of the graph timeline pass never aborts the run
\* and never alters the result of Validate; the timeline is empty with a
\* duration of 0 when the reader is unavailable or cannot reopen the file,
\* while a raise on a node that the walk visits is caught at that node and
\* leaves the clips of the other nodes on the timeline.
C28_FailureKeepsValidation ==
    /\ [][TimelinePassKeepsResult]_vars
    /\ []((pc = "Output" /\ file_type = "aaf") =>
            /\ ReportKeepsValidation
            /\ (~aaf_support \/ file.reopen_fails) =>
                  /\ report[1].timeline_clips = <<>>
                  /\ report[1].total_duration = 0)

\* the report of a run whose timeline pass could not reopen the file, for a
\* container that has a clip
C28_Witness ==
    /\ pc = "Output"
    /\ file_type = "aaf"
    /\ file.reopen_fails
    /\ report # <<>>
    /\ report[1].total_clips > 0
    /\ report[1].timeline_clips = <<>>

(***************************************************************************)
(* C29: the name check of a clip that is named after its source.           *)
(***************************************************************************)

\* the source's name is the base name of the file, with or without the
\* extension, in any case
NamedAfterFile(name, path) ==
    /\ Truthy(name)
    /\ \/ Lower(name) = Lower(Basename(path))
       \/ Lower(name) = Lower(SplitExt(Basename(path))[1])

\* C29: in the graph timeline pass, a clip that takes its display name from
\* the name of its source has name_matches_file true whenever that name is
\* the base name of the resolved external file, with or without the extension
\* and in any case, also when the stem of the name has a dot in it.
C29_SourceNameMatches ==
    TimelineWalked =>
        \A j \in 1..Len(timeline[1]) : \A m \in SourcesOf(file.content.nodes) :
            With(file.content.nodes[m], LAMBDA source_mob :
                (/\ HasAttr(source_mob.mob_id)
                 /\ timeline[1][j].clip_id = source_mob.mob_id
                 /\ NonGeneric(source_mob.name) # NONE
                 /\ Truthy(timeline[1][j].external_path)
                 /\ NamedAfterFile(source_mob.name, timeline[1][j].external_path))
                    => timeline[1][j].name_matches_file = "True")

(***************************************************************************)
(* C30: the graph extractor and the sources that can be reached.           *)
(***************************************************************************)

\* the segments a segment leads to: those of its slots and its components
ChildrenOf(seg) ==
    {seg.slots.list[i].segment : i \in {k \in 1..Len(seg.slots.list) :
                                            seg.slots.list[k].segment > 0}}
    \cup {seg.components.list[i] : i \in 1..Len(seg.components.list)}

\* the nodes reached from node n through slots[*].segment and components[*]
\* edges, in at most as many steps as the graph has nodes
RECURSIVE ReachableFrom(_, _, _)
ReachableFrom(g, n, depth) ==
    IF depth > Len(g) THEN {}
    ELSE {n} \cup UNION {ReachableFrom(g, k, depth + 1) : k \in ChildrenOf(g[n])}

\* the graph extractor has just returned, and no node of the graph raises
ExtractedWithoutException ==
    /\ file_type = "aaf" /\ pc = "Validate" /\ vi = 1
    /\ \A n \in 1..Len(file.content.nodes) : file.content.nodes[n].raises = "no"

\* C30: when no exception occurs, every source clip that is reached from a
\* top-level composition through slots[*].segment and components[*] edges and
\* whose source meets the inclusion rule has a clip with its source id among
\* the extracted clips, also a source clip that lies below a repeated
\* reference to a source that has been processed.
C30_CompleteOverReachable ==
    ExtractedWithoutException =>
        \E heap \in Heaps :
            \A c \in 1..Len(file.content.toplevel) :
                \A n \in ReachableFrom(file.content.nodes, file.content.toplevel[c], 0) :
                    (/\ file.content.nodes[n].mob > 0
                     /\ MeetsOneOfFour(file.content.nodes, file.content.nodes[n].mob))
                        => \E i \in 1..Len(all_clips) :
                              all_clips[i].clip_id
                                = SourceId(file.content.nodes, heap, file.content.nodes[n].mob)
====
